---- MODULE Spec2Model ----
(***************************************************************************)
(* Upload processing of manage-sku: the raw_uploads and sales_data tables, *)
(* the upload directory, and the request handlers of                       *)
(* backend/app/api/v1/endpoints/upload.py driving                          *)
(* backend/app/services/processing_pipeline.py.                            *)
(*                                                                         *)
(* Every request handler opens its own database session                    *)
(* (async with AsyncSessionLocal()), so each handler holds its own copy of *)
(* the RawUpload it loaded.  A handler is modelled step by step: one       *)
(* action per stretch of code between two awaited database calls, so that  *)
(* handlers of concurrent requests interleave where the event loop (or a   *)
(* second worker process) lets them.                                       *)
(*                                                                         *)
(* The services the handlers call on the data (DataProcessor,              *)
(* SchemaDetector, DataValidator) are functions of their arguments: they   *)
(* are operators here, applied by the actions of the specifications at the *)
(* end of the module to an argument `arg` drawn from a bounded set, with   *)
(* the value returned kept in `ret`.                                       *)
(***************************************************************************)
EXTENDS Integers, Sequences, FiniteSets

VARIABLES raw_uploads, sales_data, files, run, now, arg, ret

vars == <<raw_uploads, sales_data, files, run, now, arg, ret>>

(***************************************************************************)
(* Bounds of the model.                                                    *)
(***************************************************************************)
\* most data rows in an uploaded file
MaxRows == 2
\* most rows the sales_data table holds
MaxRecords == 4
\* last instant of the clock
MaxClock == 3

\* upload ids (uuid4 strings in the code) and request-handler slots
UploadIds == {"u1", "u2"}
Handlers == {"h1", "h2"}

NULL == "NULL"

\* column mappings a caller may save (a non-empty dict)
Mappings == {"mapping"}

(***************************************************************************)
(* An uploaded file, as far as the handlers depend on it: its number of    *)
(* data rows, its number of columns, and `bad`, the first row (after       *)
(* cleaning, mapping and default filling) for which building the SalesData *)
(* record raises (float()/int() of a value that does not convert); 0 when  *)
(* every row converts.  The files offered for upload: one without data     *)
(* rows, one that converts, one with a single column, and one whose last   *)
(* row does not convert.                                                   *)
(***************************************************************************)
FileKinds ==
    { [rows |-> 0, cols |-> 2, bad |-> 0],
      [rows |-> MaxRows, cols |-> 2, bad |-> 0],
      [rows |-> MaxRows, cols |-> 1, bad |-> 0],
      [rows |-> MaxRows, cols |-> 2, bad |-> MaxRows] }

NoFile == [rows |-> 0, cols |-> 0, bad |-> 0]

\* ALLOWED status values of RawUpload.status
Statuses == {"uploaded", "processing", "processed", "error"}

\* str(e) of the exceptions a run can meet
FileNotFoundError == "File not found"
ConversionError == "could not convert"
CommitError == "commit failed"
AlreadyProcessed == "already processed"
UploadNotFound == "Upload not found"
\* the exception of the except block's own commit (line 83), not the one caught
HandlerCommitError == "commit of the error status failed"

(***************************************************************************)
(* DataValidator.validate_file_structure: the error issues it emits.       *)
(***************************************************************************)
validate_file_structure(f) ==
    (IF f.rows = 0 THEN {"empty_file"} ELSE {})
      \cup (IF f.cols < 2 THEN {"too_few_columns"} ELSE {})

\* DataValidator.validate_data: is_valid = no issue of severity error
\* (of the checks, the structural ones are modelled here)
validate_data(f) == [is_valid |-> validate_file_structure(f) = {}]

Exists(u) == u \in DOMAIN raw_uploads

\* the SalesData rows of upload u, in insertion order
RecordsOf(table, u) == SelectSeq(table, LAMBDA rec : rec.upload_id = u)

\* get_utc_timestamp()
get_utc_timestamp == now

(***************************************************************************)
(* A request handler: idle, or at a point of process_upload /              *)
(* preview_cleaned_data.  `loaded_status` is the status the handler's own  *)
(* RawUpload object was loaded with, rows_processed and rows_inserted are  *)
(* ProcessingPipeline.stats, `exc` is the exception the except block       *)
(* caught and `at` the step that raised it (or at which the handler died). *)
(***************************************************************************)
IdleRun ==
    [pc |-> "idle", op |-> "none", upload_id |-> NULL, loaded_status |-> NULL,
     column_mapping |-> NULL, df |-> NoFile, rows_processed |-> 0,
     rows_inserted |-> 0, exc |-> NULL, result |-> NULL, raised |-> NULL,
     at |-> NULL, processed_at |-> {}, preview |-> <<>>, total_rows |-> 0]

Init ==
    /\ raw_uploads = <<>>
    /\ sales_data = <<>>
    /\ files = [u \in UploadIds |-> NoFile]
    /\ run = [h \in Handlers |-> IdleRun]
    /\ now = 1
    /\ arg = NULL
    /\ ret = NULL

(***************************************************************************)
(* POST /upload: upload_file saves the file, reads, profiles and validates *)
(* it, and stores the RawUpload with status "uploaded".                    *)
(***************************************************************************)
upload_file(u, f) ==
    /\ ~Exists(u)
    /\ files' = [files EXCEPT ![u] = f]
    /\ raw_uploads' =
         [v \in DOMAIN raw_uploads \cup {u} |->
            IF v = u
            THEN [filename |-> u, file_path |-> u,
                  row_count |-> f.rows, column_count |-> f.cols,
                  detected_schema |-> [total_rows |-> f.rows,
                                       total_columns |-> f.cols],
                  validation_report |-> validate_data(f),
                  column_mapping |-> NULL, status |-> "uploaded",
                  error_message |-> NULL, processed_at |-> {}]
            ELSE raw_uploads[v]]
    /\ UNCHANGED <<sales_data, run, now, arg, ret>>

\* the handler h moves to the record r
Step(h, r) == run' = [run EXCEPT ![h] = r]

\* the handler has answered: what is left of it is the response
Response(r, result, raised) ==
    [IdleRun EXCEPT !.pc = "done", !.op = r.op, !.upload_id = r.upload_id,
                    !.result = result, !.raised = raised,
                    !.rows_processed = r.rows_processed,
                    !.rows_inserted = r.rows_inserted]

\* an UPDATE without its WHERE clause: the assignments reach every upload
CommitEveryUpload(u, changes) ==
    raw_uploads' = [v \in DOMAIN raw_uploads |->
        [k \in DOMAIN raw_uploads[v] |->
            IF k \in DOMAIN changes THEN changes[k] ELSE raw_uploads[v][k]]]

\* session.commit() of the assignments made to upload u since the last commit
Commit(u, changes) ==
    raw_uploads' = [raw_uploads EXCEPT ![u] =
        [k \in DOMAIN raw_uploads[u] |->
            IF k \in DOMAIN changes THEN changes[k] ELSE raw_uploads[u][k]]]

(***************************************************************************)
(* POST /uploads/process, upload.py lines 177-191: the endpoint loads the  *)
(* RawUpload into its session (404 when there is none) and hands the       *)
(* upload's column_mapping to ProcessingPipeline.process_upload.           *)
(***************************************************************************)
ProcessRequest(h, u) ==
    /\ run[h].pc = "idle"
    /\ IF Exists(u)
       THEN Step(h, [IdleRun EXCEPT !.pc = "entry", !.op = "process",
                       !.upload_id = u, !.loaded_status = raw_uploads[u].status,
                       !.column_mapping = raw_uploads[u].column_mapping])
       ELSE Step(h, Response([IdleRun EXCEPT !.op = "process", !.upload_id = u],
                              "http404", UploadNotFound))
    /\ UNCHANGED <<raw_uploads, sales_data, files, now, arg, ret>>

\* the entry check dropped
AlreadyProcessedCheckDropped(status) == FALSE

\* process_upload line 42: the entry check on the status of the loaded upload
AlreadyProcessedCheck(status) == status = "processed"

\* the entry check taking a per-upload lock: it waits while another run on the
\* upload is under way
EntryCheckLocked(h) ==
    /\ run[h].pc = "entry"
    /\ \A g \in Handlers \ {h} :
          ~( /\ run[g].op = "process"
             /\ run[g].upload_id = run[h].upload_id
             /\ run[g].pc \in {"try", "file", "insert", "finish", "except"} )
    /\ IF AlreadyProcessedCheck(run[h].loaded_status)
       THEN Step(h, Response(run[h], "http500", AlreadyProcessed))
       ELSE Step(h, [run[h] EXCEPT !.pc = "try"])
    /\ UNCHANGED <<raw_uploads, sales_data, files, now, arg, ret>>

(***************************************************************************)
(* process_upload lines 38-43.  session.get finds the RawUpload the        *)
(* endpoint loaded in the session's identity map, so the check reads the   *)
(* status as the endpoint loaded it.                                       *)
(***************************************************************************)
EntryCheck(h) ==
    /\ run[h].pc = "entry"
    /\ IF AlreadyProcessedCheck(run[h].loaded_status)
       THEN Step(h, Response(run[h], "http500", AlreadyProcessed))
       ELSE Step(h, [run[h] EXCEPT !.pc = "try"])
    /\ UNCHANGED <<raw_uploads, sales_data, files, now, arg, ret>>

\* "processing" assigned to the object but never committed
MarkProcessingUncommitted(h) ==
    /\ run[h].pc = "try"
    /\ Step(h, [run[h] EXCEPT !.pc = "file"])
    /\ UNCHANGED <<raw_uploads, sales_data, files, now, arg, ret>>

(***************************************************************************)
(* process_upload lines 47-48: status "processing" is assigned and         *)
(* committed; the commit may raise.                                        *)
(***************************************************************************)
MarkProcessing(h) ==
    /\ run[h].pc = "try"
    /\ Commit(run[h].upload_id, [status |-> "processing"])
    /\ Step(h, [run[h] EXCEPT !.pc = "file"])
    /\ UNCHANGED <<sales_data, files, now, arg, ret>>

MarkProcessingFails(h) ==
    /\ run[h].pc = "try"
    /\ Step(h, [run[h] EXCEPT !.pc = "except", !.exc = CommitError,
                   !.at = "try"])
    /\ UNCHANGED <<raw_uploads, sales_data, files, now, arg, ret>>

(***************************************************************************)
(* process_upload lines 51-67: the file is looked up, read, cleaned,       *)
(* mapped and filled; stats["rows_processed"] is the number of rows read.  *)
(***************************************************************************)
ReadAndTransform(h) ==
    /\ run[h].pc = "file"
    /\ IF files[run[h].upload_id] = NoFile
       THEN Step(h, [run[h] EXCEPT !.pc = "except", !.exc = FileNotFoundError,
                       !.at = "file"])
       ELSE Step(h, [run[h] EXCEPT !.pc = "insert",
                       !.df = files[run[h].upload_id],
                       !.rows_processed = files[run[h].upload_id].rows])
    /\ UNCHANGED <<raw_uploads, sales_data, files, now, arg, ret>>

(***************************************************************************)
(* _insert_to_database lines 90-105: one SalesData per row of the dataset, *)
(* collected in a local list; building a record raises at row df.bad.      *)
(***************************************************************************)
BuildFails(df) == df.bad # 0

BuildRecords(df, u) == [i \in 1..df.rows |-> [upload_id |-> u, row |-> i]]

\* _insert_to_database lines 108-109: add_all and one commit of all records
BulkInsert(table, records) == table \o records

(***************************************************************************)
(* process_upload line 70 with _insert_to_database: the records are built, *)
(* then added and committed in one transaction; stats["rows_inserted"] is  *)
(* their number.                                                           *)
(***************************************************************************)
InsertToDatabase(h) ==
    /\ run[h].pc = "insert"
    /\ ~BuildFails(run[h].df)
    /\ Len(sales_data) + run[h].df.rows <= MaxRecords
    /\ sales_data' = BulkInsert(sales_data, BuildRecords(run[h].df, run[h].upload_id))
    /\ Step(h, [run[h] EXCEPT !.pc = "finish",
                   !.rows_inserted = Len(BuildRecords(run[h].df, run[h].upload_id))])
    /\ UNCHANGED <<raw_uploads, files, now, arg, ret>>

\* a record fails to build: the exception leaves _insert_to_database before add_all
InsertBuildFails(h) ==
    /\ run[h].pc = "insert"
    /\ BuildFails(run[h].df)
    /\ Step(h, [run[h] EXCEPT !.pc = "except", !.exc = ConversionError,
                   !.at = "insert"])
    /\ UNCHANGED <<raw_uploads, sales_data, files, now, arg, ret>>

\* the commit of line 109 raises: the transaction is rolled back
InsertCommitFails(h) ==
    /\ run[h].pc = "insert"
    /\ ~BuildFails(run[h].df)
    /\ Step(h, [run[h] EXCEPT !.pc = "except", !.exc = CommitError,
                   !.at = "insert"])
    /\ UNCHANGED <<raw_uploads, sales_data, files, now, arg, ret>>

\* the processed timestamp forgotten
ProcessedFieldsNoTimestamp(t) == [status |-> "processed"]

\* the final commit writing the mapping back as null
ProcessedFieldsClearingMapping(t) ==
    [status |-> "processed", processed_at |-> {t}, column_mapping |-> NULL]

\* process_upload lines 73-74: what a successful run assigns to the upload
ProcessedFields(t) == [status |-> "processed", processed_at |-> {t}]

(***************************************************************************)
(* process_upload lines 73-78, and the endpoint's response (upload.py      *)
(* lines 193-199) built from the returned stats.                           *)
(***************************************************************************)
MarkProcessed(h) ==
    /\ run[h].pc = "finish"
    /\ now < MaxClock
    /\ Commit(run[h].upload_id, ProcessedFields(get_utc_timestamp))
    /\ now' = now + 1
    /\ Step(h, [Response(run[h], "processed", NULL)
                   EXCEPT !.processed_at = {get_utc_timestamp}])
    /\ UNCHANGED <<sales_data, files, arg, ret>>

MarkProcessedFails(h) ==
    /\ run[h].pc = "finish"
    /\ Step(h, [run[h] EXCEPT !.pc = "except", !.exc = CommitError,
                   !.at = "finish"])
    /\ UNCHANGED <<raw_uploads, sales_data, files, now, arg, ret>>

\* the except block stamping the failed run as if it had been processed
ErrorFieldsStamped(e) == [status |-> "error", error_message |-> e, processed_at |-> {0}]

\* the except block putting the upload back to "uploaded" for a retry
ErrorFieldsReset(e) == [status |-> "uploaded", error_message |-> e]

\* process_upload lines 81-82: what the except block assigns to the upload
ErrorFields(e) == [status |-> "error", error_message |-> e]

(***************************************************************************)
(* process_upload lines 80-86: status "error" and str(e) are committed and *)
(* the exception is raised again; the endpoint answers 500 with its        *)
(* message.  The block issues no session.rollback(): when the exception    *)
(* came out of a commit, the session's transaction is rolled back and the  *)
(* commit of line 83 raises in its turn.                                   *)
(***************************************************************************)
HandleError(h) ==
    /\ run[h].pc = "except"
    /\ run[h].exc # CommitError
    /\ Commit(run[h].upload_id, ErrorFields(run[h].exc))
    /\ Step(h, Response(run[h], "http500", run[h].exc))
    /\ UNCHANGED <<sales_data, files, now, arg, ret>>

\* the commit of line 83 raises: its exception leaves process_upload
HandleErrorFails(h) ==
    /\ run[h].pc = "except"
    /\ Step(h, Response(run[h], "http500", HandlerCommitError))
    /\ UNCHANGED <<raw_uploads, sales_data, files, now, arg, ret>>

\* df.head(20) of preview_cleaned_data line 138
PreviewRows == 20

Min(a, b) == IF a <= b THEN a ELSE b

(***************************************************************************)
(* POST /uploads/preview, upload.py lines 211-225: the endpoint loads the  *)
(* RawUpload (404 when there is none) and calls preview_cleaned_data.      *)
(***************************************************************************)
PreviewRequest(h, u) ==
    /\ run[h].pc = "idle"
    /\ IF Exists(u)
       THEN Step(h, [IdleRun EXCEPT !.pc = "preview", !.op = "preview",
                       !.upload_id = u, !.loaded_status = raw_uploads[u].status,
                       !.column_mapping = raw_uploads[u].column_mapping])
       ELSE Step(h, Response([IdleRun EXCEPT !.op = "preview", !.upload_id = u],
                              "http404", UploadNotFound))
    /\ UNCHANGED <<raw_uploads, sales_data, files, now, arg, ret>>

\* a preview that records a failed read on the upload, as process_upload does
PreviewMarksError(h) ==
    /\ run[h].pc = "preview"
    /\ IF files[run[h].upload_id] = NoFile
       THEN /\ Step(h, Response(run[h], "http500", FileNotFoundError))
            /\ Commit(run[h].upload_id, ErrorFields(FileNotFoundError))
       ELSE /\ Step(h, [Response(run[h], "preview", NULL) EXCEPT
                          !.total_rows = files[run[h].upload_id].rows,
                          !.preview = [i \in 1..Min(PreviewRows,
                                          files[run[h].upload_id].rows) |-> i]])
            /\ UNCHANGED raw_uploads
    /\ UNCHANGED <<sales_data, files, now, arg, ret>>

(***************************************************************************)
(* preview_cleaned_data lines 126-157: read, clean, map, fill, and return  *)
(* the first rows with the row total; read_file raises when the file is    *)
(* gone.  Nothing is assigned to the upload and nothing is committed.      *)
(***************************************************************************)
preview_cleaned_data(h) ==
    /\ run[h].pc = "preview"
    /\ IF files[run[h].upload_id] = NoFile
       THEN Step(h, Response(run[h], "http500", FileNotFoundError))
       ELSE Step(h, [Response(run[h], "preview", NULL) EXCEPT
                       !.total_rows = files[run[h].upload_id].rows,
                       !.preview = [i \in 1..Min(PreviewRows,
                                       files[run[h].upload_id].rows) |-> i]])
    /\ UNCHANGED <<raw_uploads, sales_data, files, now, arg, ret>>

(***************************************************************************)
(* POST /uploads/{upload_id}/mapping, upload.py lines 243-255.             *)
(***************************************************************************)
set_column_mapping(u, mapping) ==
    /\ Exists(u)
    /\ raw_uploads[u].column_mapping # mapping
    /\ Commit(u, [column_mapping |-> mapping])
    /\ UNCHANGED <<sales_data, files, run, now, arg, ret>>

\* the server process dies while handler h is between two steps
Kill(h) ==
    /\ run[h].pc \notin {"idle", "done", "killed"}
    /\ Step(h, [IdleRun EXCEPT !.pc = "killed", !.op = run[h].op,
                              !.upload_id = run[h].upload_id,
                              !.at = IF run[h].pc = "except" THEN run[h].at
                                     ELSE run[h].pc])
    /\ UNCHANGED <<raw_uploads, sales_data, files, now, arg, ret>>

\* the response is sent (or the dead process replaced): the slot serves again
Release(h) ==
    /\ run[h].pc \in {"done", "killed"}
    /\ Step(h, IdleRun)
    /\ UNCHANGED <<raw_uploads, sales_data, files, now, arg, ret>>

\* the stored file of upload u disappears from the upload directory
FileLost(u) ==
    /\ Exists(u)
    /\ files[u] # NoFile
    /\ files' = [files EXCEPT ![u] = NoFile]
    /\ UNCHANGED <<raw_uploads, sales_data, run, now, arg, ret>>

(***************************************************************************)
(* Spec: every request is for one and the same upload, so that the two     *)
(* handlers contend for it.                                                *)
(***************************************************************************)
Contended == {"u1"}

Next ==
    \/ \E u \in Contended, f \in FileKinds : upload_file(u, f)
    \/ \E u \in Contended, m \in Mappings : set_column_mapping(u, m)
    \/ \E u \in Contended : FileLost(u)
    \/ \E h \in Handlers, u \in Contended : ProcessRequest(h, u)
    \/ \E h \in Handlers, u \in Contended : PreviewRequest(h, u)
    \/ \E h \in Handlers : EntryCheck(h)
    \/ \E h \in Handlers : MarkProcessing(h)
    \/ \E h \in Handlers : MarkProcessingFails(h)
    \/ \E h \in Handlers : ReadAndTransform(h)
    \/ \E h \in Handlers : InsertToDatabase(h)
    \/ \E h \in Handlers : InsertBuildFails(h)
    \/ \E h \in Handlers : InsertCommitFails(h)
    \/ \E h \in Handlers : MarkProcessed(h)
    \/ \E h \in Handlers : MarkProcessedFails(h)
    \/ \E h \in Handlers : HandleError(h)
    \/ \E h \in Handlers : HandleErrorFails(h)
    \/ \E h \in Handlers : preview_cleaned_data(h)
    \/ \E h \in Handlers : Kill(h)
    \/ \E h \in Handlers : Release(h)

Spec == Init /\ [][Next]_vars

(***************************************************************************)
(* SpecIsolated: two uploads, each processed by its own handler, once.     *)
(***************************************************************************)
Owned(h) == IF h = "h1" THEN "u1" ELSE "u2"

NextIsolated ==
    \/ \E u \in UploadIds, f \in FileKinds : upload_file(u, f)
    \/ \E u \in UploadIds : FileLost(u)
    \/ \E h \in Handlers : ProcessRequest(h, Owned(h))
    \/ \E h \in Handlers : EntryCheck(h)
    \/ \E h \in Handlers : MarkProcessing(h)
    \/ \E h \in Handlers : MarkProcessingFails(h)
    \/ \E h \in Handlers : ReadAndTransform(h)
    \/ \E h \in Handlers : InsertToDatabase(h)
    \/ \E h \in Handlers : InsertBuildFails(h)
    \/ \E h \in Handlers : InsertCommitFails(h)
    \/ \E h \in Handlers : MarkProcessed(h)
    \/ \E h \in Handlers : MarkProcessedFails(h)
    \/ \E h \in Handlers : HandleError(h)
    \/ \E h \in Handlers : HandleErrorFails(h)
    \/ \E h \in Handlers : Kill(h)

SpecIsolated == Init /\ [][NextIsolated]_vars

(***************************************************************************)
(* Properties.                                                             *)
(***************************************************************************)
StatusOf(u) == raw_uploads[u].status

\* handler h takes a step
Moves(h) == run'[h] # run[h]

\* upload.status of handler h's own RawUpload object: as loaded, until line 47
\* assigns "processing"
UploadStatus(h) ==
    IF run[h].pc \in {"entry", "try"} THEN run[h].loaded_status ELSE "processing"

\* the process run of handler h is past the entry check and not yet over
InFlight(h) ==
    run[h].op = "process" /\ run[h].pc \in {"try", "file", "insert", "finish", "except"}

ClaimedPaths ==
    { <<"uploaded", "processing">>, <<"processing", "processed">>,
      <<"processing", "error">> }

C2_AsClaimed ==
    [][\A u \in UploadIds :
        (Exists(u) /\ raw_uploads'[u].status # StatusOf(u))
           => <<StatusOf(u), raw_uploads'[u].status>> \in ClaimedPaths
    ]_vars

(***************************************************************************)
(* C2 amended: every status change is made by a step of a process run on   *)
(* that upload.  While the stored status is the one the run last saw       *)
(* (loaded or committed itself), it changes only along                     *)
(* uploaded->processing, error->processing, processing->processed and      *)
(* processing->error: "error" is left again by a later run.  A run that    *)
(* overlaps another run on the upload may in addition overwrite            *)
(* processed->processing, processed->error and error->processed.  Nothing  *)
(* returns to "uploaded"; preview and set-mapping change no status.        *)
(***************************************************************************)
SequentialPaths == ClaimedPaths \cup { <<"error", "processing">> }

OverlapPaths ==
    { <<"processed", "processing">>, <<"processed", "error">>,
      <<"error", "processed">> }

C2_StatusPaths ==
    [][\A u \in UploadIds :
        (Exists(u) /\ raw_uploads'[u].status # StatusOf(u))
           => \E h \in Handlers :
                /\ Moves(h)
                /\ run[h].op = "process"
                /\ run[h].upload_id = u
                /\ IF UploadStatus(h) = StatusOf(u)
                   THEN <<StatusOf(u), raw_uploads'[u].status>> \in SequentialPaths
                   ELSE <<StatusOf(u), raw_uploads'[u].status>>
                            \in SequentialPaths \cup OverlapPaths
    ]_vars

\* a run that found the upload in "error" has moved it back to "processing"
C2_Witness ==
    \E h \in Handlers :
        /\ run[h].op = "process"
        /\ run[h].pc = "file"
        /\ run[h].loaded_status = "error"
        /\ StatusOf(run[h].upload_id) = "processing"
        /\ raw_uploads[run[h].upload_id].error_message # NULL

\* the run of handler h has committed "processing" and is at a later step: the
\* file lookup and read, the insert, the final commit, or the except block
\* entered from one of these
PastProcessingCommit(h) ==
    /\ run[h].op = "process"
    /\ \/ run[h].pc \in {"file", "insert", "finish"}
       \/ run[h].pc = "except" /\ run[h].at \in {"file", "insert", "finish"}

(***************************************************************************)
(* C3 as claimed: while a run is at any step after its commit of           *)
(* "processing" (where it may be killed), the stored status is             *)
(* "processing".                                                           *)
(***************************************************************************)
C3_AsClaimed ==
    \A h \in Handlers :
        PastProcessingCommit(h) => StatusOf(run[h].upload_id) = "processing"

(***************************************************************************)
(* C3 amended: the run commits "processing" before it looks up the file,   *)
(* so at every later step, where it may be killed, the stored status is    *)
(* never "uploaded"; it is "processing" unless another run on the same     *)
(* upload has overwritten it (with "processed" or "error") meanwhile, and  *)
(* killing the run changes nothing stored.                                 *)
(***************************************************************************)
C3_ProcessingFirst ==
    /\ [](\A h \in Handlers :
            PastProcessingCommit(h)
               => StatusOf(run[h].upload_id) \in {"processing", "processed", "error"})
    /\ [][\A h \in Handlers :
            /\ (run[h].op = "process" /\ run[h].pc = "try" /\ run'[h].pc = "file")
                  => raw_uploads'[run[h].upload_id].status = "processing"
            /\ ( /\ PastProcessingCommit(h)
                 /\ raw_uploads'[run[h].upload_id].status # StatusOf(run[h].upload_id)
                 /\ ~Moves(h) )
                  => \E g \in Handlers \ {h} :
                        /\ Moves(g)
                        /\ run[g].op = "process"
                        /\ run[g].upload_id = run[h].upload_id
            /\ (PastProcessingCommit(h) /\ Moves(h) /\ run'[h].pc \notin {"done"})
                  => raw_uploads' = raw_uploads
       ]_vars

\* a run was killed after its file was read; the stored status is "processing"
C3_Witness ==
    \E h \in Handlers :
        /\ run[h].pc = "killed"
        /\ run[h].op = "process"
        /\ run[h].at = "insert"
        /\ StatusOf(run[h].upload_id) = "processing"
        /\ \A g \in Handlers \ {h} : run[g].pc = "idle"

(***************************************************************************)
(* C4 as claimed: when a process run ends by raising out of its try block, *)
(* the stored status is "error", the stored error_message is the message   *)
(* of the exception caught, and that same exception reaches the caller.    *)
(***************************************************************************)
C4_AsClaimed ==
    [][\A h \in Handlers :
        (run[h].op = "process" /\ run[h].pc = "except" /\ run'[h].pc = "done")
           => /\ raw_uploads'[run[h].upload_id].status = "error"
              /\ raw_uploads'[run[h].upload_id].error_message = run[h].exc
              /\ run'[h].raised = run[h].exc
    ]_vars

(***************************************************************************)
(* C5: the step that ends a run whose steps all succeeded stores status    *)
(* "processed" and a fresh processed_at taken by this run, and the         *)
(* response carries rows_processed and rows_inserted of the run.           *)
(***************************************************************************)
C5_SuccessProcessed ==
    [][\A h \in Handlers :
        (run[h].op = "process" /\ run[h].pc = "finish" /\ run'[h].pc = "done")
           => /\ raw_uploads'[run[h].upload_id].status = "processed"
              /\ raw_uploads'[run[h].upload_id].processed_at = {now}
              /\ raw_uploads'[run[h].upload_id].processed_at
                    # raw_uploads[run[h].upload_id].processed_at
              /\ run'[h].processed_at = {now}
              /\ run'[h].result = "processed"
              /\ run'[h].raised = NULL
              /\ run'[h].rows_processed = run[h].df.rows
              /\ run'[h].rows_inserted = run[h].df.rows
    ]_vars

\* a run has answered "processed" with its counts; the upload is processed as of
\* this run's timestamp and holds the run's rows
C5_Witness ==
    \E h \in Handlers :
        /\ run[h].pc = "done"
        /\ run[h].result = "processed"
        /\ run[h].rows_processed = MaxRows
        /\ run[h].rows_inserted = MaxRows
        /\ StatusOf(run[h].upload_id) = "processed"
        /\ raw_uploads[run[h].upload_id].processed_at = run[h].processed_at
        /\ Len(RecordsOf(sales_data, run[h].upload_id)) = MaxRows

(***************************************************************************)
(* C6: no step of a process run waits for, or is refused because of,       *)
(* another run on the same upload: a run whose loaded status is not        *)
(* "processed" can always pass the entry check, commit "processing" and    *)
(* insert its records, whatever the other handler is doing.  (The state    *)
(* with the rows stored twice is C6_Witness.)                              *)
(***************************************************************************)
C6_NoMutualExclusion ==
    \A h \in Handlers :
        /\ ( /\ run[h].op = "process"
             /\ run[h].pc = "entry"
             /\ run[h].loaded_status # "processed" )
           => ENABLED (EntryCheck(h) /\ run'[h].pc = "try")
        /\ (run[h].op = "process" /\ run[h].pc = "try")
           => ENABLED MarkProcessing(h)
        /\ ( /\ run[h].op = "process"
             /\ run[h].pc = "insert"
             /\ ~BuildFails(run[h].df)
             /\ Len(sales_data) + run[h].df.rows <= MaxRecords )
           => ENABLED InsertToDatabase(h)

\* two runs that both found the upload "uploaded" have both inserted: every row
\* of the file is stored twice
C6_Witness ==
    \E u \in UploadIds :
        /\ Exists(u)
        /\ raw_uploads[u].row_count > 0
        /\ Len(RecordsOf(sales_data, u)) = 2 * raw_uploads[u].row_count
        /\ \A h \in Handlers :
              /\ run[h].op = "process"
              /\ run[h].upload_id = u
              /\ run[h].loaded_status = "uploaded"
              /\ run[h].pc = "finish"

\* what the upload row and the records of upload u must be, given only the
\* file that was uploaded as u and the point its own run (handler h) is at
AloneRow(u, status, message, stamp) ==
    /\ raw_uploads[u].status = status
    /\ raw_uploads[u].error_message = message
    /\ raw_uploads[u].processed_at = stamp

AloneRecords(u, inserted) ==
    RecordsOf(sales_data, u) =
        IF inserted
        THEN BuildRecords([rows |-> raw_uploads[u].row_count], u)
        ELSE <<>>

AsIfAlone(h, u) ==
    LET r == run[h]
        at == IF r.pc \in {"except", "killed"} THEN r.at ELSE r.pc
    IN  CASE r.pc \in {"idle", "entry", "try"} \/ r.result = "http404"
               \/ (r.pc \in {"except", "killed"} /\ at \in {"entry", "try"}) ->
               AloneRow(u, "uploaded", NULL, {}) /\ AloneRecords(u, FALSE)
          [] r.pc \in {"file", "insert", "finish", "except", "killed"} ->
               /\ AloneRow(u, "processing", NULL, {})
               /\ AloneRecords(u, at = "finish")
          [] r.result = "processed" ->
               /\ AloneRow(u, "processed", NULL, r.processed_at)
               /\ r.processed_at # {}
               /\ AloneRecords(u, TRUE)
               /\ r.rows_processed = raw_uploads[u].row_count
               /\ r.rows_inserted = raw_uploads[u].row_count
          [] r.raised \in {FileNotFoundError, ConversionError} ->
               /\ AloneRow(u, "error", r.raised, {})
               /\ AloneRecords(u, FALSE)
               /\ r.rows_inserted = 0
          [] r.raised = HandlerCommitError ->
               /\ \/ AloneRow(u, "uploaded", NULL, {}) /\ r.rows_processed = 0
                  \/ AloneRow(u, "processing", NULL, {})
               /\ AloneRecords(u, r.rows_inserted > 0)
               /\ r.rows_inserted \in {0, raw_uploads[u].row_count}
          [] OTHER -> FALSE

(***************************************************************************)
(* C7: with one process run per upload, under every interleaving the row   *)
(* of each upload (status, error_message, processed_at), its SalesData     *)
(* rows and the counts its run returns are determined by its own file and  *)
(* its own run alone, and no step of a run touches the row or the records  *)
(* of the other upload.                                                    *)
(***************************************************************************)
C7_Independent ==
    /\ [](\A h \in Handlers : Exists(Owned(h)) => AsIfAlone(h, Owned(h)))
    /\ [][\A h \in Handlers : \A v \in UploadIds \ {Owned(h)} :
            (Moves(h) /\ Exists(v))
               => /\ raw_uploads'[v] = raw_uploads[v]
                  /\ RecordsOf(sales_data', v) = RecordsOf(sales_data, v)
       ]_vars

\* the two runs overlap and end differently: h1 has inserted the rows of u1 and
\* is about to mark it processed while h2's run on u2 has failed on its file
C7_Witness ==
    /\ run["h1"].pc = "finish"
    /\ Len(RecordsOf(sales_data, "u1")) = MaxRows
    /\ run["h2"].pc = "done"
    /\ run["h2"].raised = FileNotFoundError
    /\ StatusOf("u2") = "error"
    /\ StatusOf("u1") = "processing"

\* the records stored for u are whole batches of the upload's rows
WholeBatches(u) ==
    LET recs == RecordsOf(sales_data, u)
        n == raw_uploads[u].row_count
    IN  IF n = 0 THEN recs = <<>>
        ELSE /\ Len(recs) % n = 0
             /\ \A j \in 1..Len(recs) : recs[j].row = ((j - 1) % n) + 1

(***************************************************************************)
(* C8 as claimed: the stored records of an upload are always whole         *)
(* batches; a failing bulk insert (a record that does not build, or the    *)
(* commit) stores nothing; and the run whose insert failed ends with the   *)
(* status "error" and the failure raised to the caller.                    *)
(***************************************************************************)
C8_AsClaimed ==
    /\ [](\A u \in UploadIds : Exists(u) => WholeBatches(u))
    /\ [][\A h \in Handlers :
            /\ (run[h].pc = "insert" /\ run'[h].pc = "except")
                  => sales_data' = sales_data
            /\ ( /\ run[h].op = "process"
                 /\ run[h].pc = "except"
                 /\ run[h].at = "insert"
                 /\ run'[h].pc = "done" )
                  => /\ raw_uploads'[run[h].upload_id].status = "error"
                     /\ run'[h].raised = run[h].exc
       ]_vars

(***************************************************************************)
(* C9 as claimed: an upload whose stored validation report has             *)
(* is_valid = false never gets SalesData rows and never becomes            *)
(* "processed".                                                            *)
(***************************************************************************)
C9_AsClaimed ==
    \A u \in UploadIds :
        (Exists(u) /\ ~raw_uploads[u].validation_report.is_valid)
           => /\ StatusOf(u) # "processed"
              /\ RecordsOf(sales_data, u) = <<>>

(***************************************************************************)
(* C10: a preview call, from the endpoint's load of the upload to its      *)
(* answer, good or bad, leaves every upload row (status, error_message,    *)
(* processed_at, column_mapping and the rest) and the SalesData table      *)
(* unchanged, whatever the status of the upload.                           *)
(***************************************************************************)
C10_PreviewReadOnly ==
    [][\A h \in Handlers :
        ( \/ (run[h].op = "preview" /\ Moves(h))
          \/ (run[h].pc = "idle" /\ run'[h].op = "preview") )
           => UNCHANGED <<raw_uploads, sales_data>>
    ]_vars

\* a preview has failed on the missing file of a processed upload with a
\* mapping: the upload is still processed, without an error message
C10_Witness ==
    \E h \in Handlers :
        /\ run[h].op = "preview"
        /\ run[h].pc = "done"
        /\ run[h].raised = FileNotFoundError
        /\ StatusOf(run[h].upload_id) = "processed"
        /\ raw_uploads[run[h].upload_id].error_message = NULL
        /\ raw_uploads[run[h].upload_id].processed_at # {}
        /\ raw_uploads[run[h].upload_id].column_mapping # NULL

(***************************************************************************)
(* The data services.  A column name is a sequence of characters.          *)
(***************************************************************************)
UpperLetters ==
    <<"A", "B", "C", "D", "E", "F", "G", "H", "I", "J", "K", "L", "M", "N",
       "O", "P", "Q", "R", "S", "T", "U", "V", "W", "X", "Y", "Z" >>

LowerLetters ==
    <<"a", "b", "c", "d", "e", "f", "g", "h", "i", "j", "k", "l", "m", "n",
       "o", "p", "q", "r", "s", "t", "u", "v", "w", "x", "y", "z" >>

Digits ==
    {"0", "1", "2", "3", "4", "5", "6", "7", "8", "9" }

\* what str.strip() removes at both ends
Whitespace == {" ", "\t"}

RECURSIVE LStrip(_)
LStrip(s) == IF s # <<>> /\ Head(s) \in Whitespace THEN LStrip(Tail(s)) ELSE s

RECURSIVE RStrip(_)
RStrip(s) ==
    IF s # <<>> /\ s[Len(s)] \in Whitespace
    THEN RStrip(SubSeq(s, 1, Len(s) - 1))
    ELSE s

\* Index.str.strip(), applied to one name
str_strip(s) == RStrip(LStrip(s))

\* str.lower() of one character
Lower(c) ==
    IF \E i \in DOMAIN UpperLetters : UpperLetters[i] = c
    THEN LowerLetters[CHOOSE i \in DOMAIN UpperLetters : UpperLetters[i] = c]
    ELSE c

\* Index.str.lower(), applied to one name
str_lower(s) == [i \in DOMAIN s |-> Lower(s[i])]

\* Index.str.replace(old, new) for a single character, applied to one name
str_replace(s, old, new) == [i \in DOMAIN s |-> IF s[i] = old THEN new ELSE s[i]]

\* the character class [a-z0-9_] of clean_column_names line 53
KeptChars == {LowerLetters[i] : i \in DOMAIN LowerLetters} \cup Digits \cup {"_"}

\* Index.str.replace(r"[^a-z0-9_]", "", regex=True), applied to one name
str_remove_special(s) == SelectSeq(s, LAMBDA c : c \in KeptChars)

\* spaces turned into hyphens after the hyphens were turned into underscores
clean_column_name_hyphenated(n) ==
    SelectSeq(str_replace(str_replace(str_lower(str_strip(n)), "-", "_"), " ", "-"),
              LAMBDA c : c \in KeptChars \cup {"-"})

(***************************************************************************)
(* DataProcessor.clean_column_names lines 48-54, for one column name:      *)
(* strip, lowercase, space to underscore, hyphen to underscore, then every *)
(* character outside [a-z0-9_] removed.                                    *)
(***************************************************************************)
clean_column_name(n) ==
    str_remove_special(
        str_replace(str_replace(str_lower(str_strip(n)), " ", "_"), "-", "_"))

(***************************************************************************)
(* SpecNames: clean_column_names applied to a raw column name, and again   *)
(* to the name it returned.                                                *)
(***************************************************************************)
\* longest raw column name tried (the example below apart)
MaxNameLen == 3

\* characters of the raw names: one of each kind the steps tell apart
NameChars == {" ", "-", "_", "a", "A", "1", "!"}

OrderDateRaw == <<" ", "O", "r", "d", "e", "r", " ", "D", "a", "t", "e", " ">>

OrderDateClean == <<"o", "r", "d", "e", "r", "_", "d", "a", "t", "e">>

RECURSIVE SeqsUpTo(_, _)
SeqsUpTo(S, n) ==
    IF n = 0 THEN {<<>>}
    ELSE LET shorter == SeqsUpTo(S, n - 1)
         IN  shorter \cup {Append(q, c) : q \in {t \in shorter : Len(t) = n - 1}, c \in S}

RawNames == SeqsUpTo(NameChars, MaxNameLen) \cup {OrderDateRaw}

InitNames ==
    /\ raw_uploads = <<>>
    /\ sales_data = <<>>
    /\ files = [u \in UploadIds |-> NoFile]
    /\ run = [h \in Handlers |-> IdleRun]
    /\ now = 1
    /\ arg \in RawNames
    /\ ret = [calls |-> 0, name |-> <<>>]

\* clean_column_names on the raw name
CleanName ==
    /\ ret.calls = 0
    /\ ret' = [calls |-> 1, name |-> clean_column_name(arg)]
    /\ UNCHANGED <<raw_uploads, sales_data, files, run, now, arg>>

\* clean_column_names on the name the first call returned
CleanNameAgain ==
    /\ ret.calls = 1
    /\ ret' = [calls |-> 2, name |-> clean_column_name(ret.name)]
    /\ UNCHANGED <<raw_uploads, sales_data, files, run, now, arg>>

NextNames == CleanName \/ CleanNameAgain

SpecNames == InitNames /\ [][NextNames]_vars

(***************************************************************************)
(* C18: column-name normalization is idempotent - the second call returns  *)
(* the name the first call returned, which holds characters of [a-z0-9_]   *)
(* only - and " Order Date " becomes "order_date".                         *)
(***************************************************************************)
C18_NormalizeIdempotent ==
    [][ /\ CleanName =>
             /\ \A i \in DOMAIN ret'.name : ret'.name[i] \in KeptChars
             /\ (arg = OrderDateRaw => ret'.name = OrderDateClean)
        /\ CleanNameAgain => ret'.name = ret.name
      ]_vars

\* a name that every step of the normalization changes has been normalized twice
C18_Witness ==
    /\ arg = OrderDateRaw
    /\ ret.calls = 2
    /\ ret.name = OrderDateClean

(***************************************************************************)
(* Tables.  A cell is a record [k, v]: k is its kind and v its content.    *)
(* In a file, and in a column of dtype object, the cells are strings and   *)
(* k tells what the string spells: "num" the number v, "date" the calendar *)
(* day v (days since 1970-01-01, no time of day), "datetz" the same with a *)
(* UTC offset, "time" the day v with the time of day 12:30:00, "txt" some  *)
(* other text (TextOf[v]); "null" is an empty field (NaN, NaT).  The dates *)
(* of one column are spelled in one format: with the time 00:00:00 after   *)
(* the day where the column holds times of day as well.  In a numeric or   *)
(* datetime column the cells are the values themselves.  The numbers of    *)
(* the model are integers.  "bool" is True (v = 1) or False (v = 0): a     *)
(* column of nothing but True and False is read with the dtype bool, and   *)
(* the files of the model have the two words in such columns only.         *)
(***************************************************************************)
NaN == [k |-> "null", v |-> 0]

Num(n) == [k |-> "num", v |-> n]

Day(d) == [k |-> "date", v |-> d]

DayTz(d) == [k |-> "datetz", v |-> d]

HalfPastNoon(d) == [k |-> "time", v |-> d]

Bool(b) == [k |-> "bool", v |-> IF b THEN 1 ELSE 0]

\* the kinds of cell that are numbers to pd.to_numeric
NumberKinds == {"num", "bool"}

\* the kinds of cell that are (or spell) a timestamp
TimestampKinds == {"date", "datetz", "time"}

\* the texts of the model, by their number
TextOf == <<"", "abc", "yes", "UNKNOWN">>

Txt(t) == [k |-> "txt", v |-> CHOOSE i \in DOMAIN TextOf : TextOf[i] = t]

isna(c) == c.k = "null"

\* Series.notna().sum()
notna_sum(cells) == Len(SelectSeq(cells, LAMBDA c : ~isna(c)))

\* Series.isna().sum()
isna_sum(cells) == Len(SelectSeq(cells, isna))

\* Series.dropna()
dropna(cells) == SelectSeq(cells, LAMBDA c : ~isna(c))

Range(q) == {q[i] : i \in DOMAIN q}

(***************************************************************************)
(* A table (DataFrame) is the sequence of its columns, each a record       *)
(* [name, dtype, cells]; the columns of a table are equally long.          *)
(***************************************************************************)
NumericDtypes == {"float64"}

DatetimeDtypes == {"datetime64", "datetime64tz"}

\* len(df)
NRows(df) == IF df = <<>> THEN 0 ELSE Len(df[1].cells)

\* df.columns
Columns(df) == [i \in DOMAIN df |-> df[i].name]

(***************************************************************************)
(* DataProcessor.read_file (pd.read_csv): a file is the sequence of its    *)
(* columns [name, cells]; a column whose fields all spell numbers (empty   *)
(* fields apart) is read as numbers, a column of True and False as bool,   *)
(* any other column as strings.                                            *)
(***************************************************************************)
read_column(c) ==
    [name |-> c.name,
     dtype |-> CASE c.cells # <<>> /\ \A i \in DOMAIN c.cells : c.cells[i].k = "bool" ->
                       "bool"
                 [] c.cells # <<>> /\ \A i \in DOMAIN c.cells : c.cells[i].k \in {"num", "null"} ->
                       "float64"
                 [] OTHER -> "object",
     cells |-> c.cells]

read_file(file) == [i \in DOMAIN file |-> read_column(file[i])]

\* DataProcessor.clean_column_names on a table
clean_column_names(df) ==
    [i \in DOMAIN df |-> [df[i] EXCEPT !.name = clean_column_name(df[i].name)]]

\* pd.to_numeric(series, errors="coerce"): what is no number becomes NaN; a
\* bool column is numeric as it is
to_numeric(cells) ==
    [i \in DOMAIN cells |-> IF cells[i].k \in NumberKinds THEN cells[i] ELSE NaN]

(***************************************************************************)
(* pd.to_datetime(series, errors="coerce"): a number (of a numeric column) *)
(* is taken as nanoseconds since 1970-01-01, which is day 0 for the        *)
(* numbers of the model; a string that spells a date is parsed; anything   *)
(* else becomes NaT.                                                       *)
(***************************************************************************)
to_datetime(dtype, cells) ==
    [i \in DOMAIN cells |->
        CASE cells[i].k \in TimestampKinds -> cells[i]
          [] cells[i].k = "num" /\ dtype \in NumericDtypes -> Day(0)
          [] OTHER -> NaN]

\* the dtype of a parsed datetime column: timezone-aware when its values are
datetime_dtype(cells) ==
    IF \E i \in DOMAIN cells : cells[i].k = "datetz" THEN "datetime64tz" ELSE "datetime64"

\* x / len(df) > 0.8 of infer_and_convert_types lines 64 and 75; the quotient
\* is NaN, and the test false, for a table without rows
Over80Percent(x, n) == n > 0 /\ 5 * x > 4 * n

\* at least 80% of n: the threshold itself included
AtLeast80Percent(x, n) == n > 0 /\ 5 * x >= 4 * n

(***************************************************************************)
(* DataProcessor.infer_and_convert_types lines 60-79, for one column:      *)
(* numeric first, then datetime, each when more than 80% of the rows       *)
(* (empty fields included in the count of rows) parse.                     *)
(***************************************************************************)
infer_and_convert_column(c) ==
    LET numeric_data == to_numeric(c.cells)
        date_data == to_datetime(c.dtype, c.cells)
    IN  IF Over80Percent(notna_sum(numeric_data), Len(c.cells))
        THEN [c EXCEPT !.dtype = IF c.dtype = "bool" THEN "bool" ELSE "float64",
                       !.cells = numeric_data]
        ELSE IF Over80Percent(notna_sum(date_data), Len(c.cells))
        THEN [c EXCEPT !.dtype = datetime_dtype(date_data), !.cells = date_data]
        ELSE c

infer_and_convert_types(df) == [i \in DOMAIN df |-> infer_and_convert_column(df[i])]

\* how often cell x occurs in cells
CountOf(cells, x) == Len(SelectSeq(cells, LAMBDA c : c = x))

\* Series.mode()[0]: the most frequent value, the smallest of them on a tie
mode(cells) ==
    LET vals == Range(dropna(cells))
        top == {x \in vals : \A y \in vals : CountOf(cells, y) <= CountOf(cells, x)}
    IN  CHOOSE x \in top : \A y \in top :
            x.v < y.v \/ (x.v = y.v /\ (x.k # "time" \/ y.k = "time"))

\* Series.fillna(x)
fillna(cells, x) == [i \in DOMAIN cells |-> IF isna(cells[i]) THEN x ELSE cells[i]]

\* fill_missing_values line 95: the value put into the gaps of a numeric column
NumericFill == Num(0)

\* the gaps of a column of strings filled with the day of the call
fill_missing_column_dated(c, today) ==
    IF \E i \in DOMAIN c.cells : isna(c.cells[i])
    THEN CASE c.dtype \in NumericDtypes ->
                [c EXCEPT !.cells = fillna(c.cells, NumericFill)]
           [] c.dtype \in DatetimeDtypes ->
                [c EXCEPT !.cells = fillna(c.cells,
                    IF dropna(c.cells) # <<>> THEN mode(c.cells) ELSE DayTz(today))]
           [] OTHER -> [c EXCEPT !.cells = fillna(c.cells, DayTz(today))]
    ELSE c

(***************************************************************************)
(* DataProcessor.fill_missing_values lines 91-109, for one column: 0.0 in  *)
(* a numeric column, the most common date (today when there is none) in a  *)
(* datetime column, "" in any other column.                                *)
(***************************************************************************)
fill_missing_column(c, today) ==
    IF \E i \in DOMAIN c.cells : isna(c.cells[i])
    THEN CASE c.dtype \in NumericDtypes ->
                [c EXCEPT !.cells = fillna(c.cells, NumericFill)]
           [] c.dtype \in DatetimeDtypes ->
                [c EXCEPT !.cells = fillna(c.cells,
                    IF dropna(c.cells) # <<>> THEN mode(c.cells) ELSE DayTz(today))]
           [] OTHER -> [c EXCEPT !.cells = fillna(c.cells, Txt(""))]
    ELSE c

fill_missing_values(df, today) == [i \in DOMAIN df |-> fill_missing_column(df[i], today)]

\* a cleaning that ends by dropping the rows equal to an earlier row
clean_dataframe_deduplicated(df, today) ==
    LET filled == fill_missing_values(infer_and_convert_types(clean_column_names(df)), today)
        kept == SelectSeq([r \in 1..NRows(filled) |-> r],
                    LAMBDA r : \A q \in 1..(r - 1) :
                        \E i \in DOMAIN filled : filled[i].cells[q] # filled[i].cells[r])
    IN  [i \in DOMAIN filled |->
            [filled[i] EXCEPT !.cells = [k \in DOMAIN kept |-> filled[i].cells[kept[k]]]]]

\* DataProcessor.clean_dataframe lines 116-120
clean_dataframe(df, today) ==
    fill_missing_values(infer_and_convert_types(clean_column_names(df)), today)

(***************************************************************************)
(* SchemaDetector.                                                         *)
(***************************************************************************)
\* pd.to_datetime(non_null, errors="raise") returns: numbers and datetimes
\* always convert, strings when every one of them spells a date
datetime_parses(dtype, non_null) ==
    \/ dtype \in NumericDtypes \cup DatetimeDtypes
    \/ \A i \in DOMAIN non_null : non_null[i].k \in TimestampKinds

\* detect_column_type lines 61-62: the first value is at midnight.  A number n
\* is 1970-01-01 plus n nanoseconds: before 00:00:01 for the numbers of the
\* model that are not negative, 23:59:59 of the day before for the others.
at_midnight(c) == c.k # "time" /\ (c.k # "num" \/ c.v >= 0)

\* the spellings of detect_column_type lines 80-94 among the texts of the model
BooleanTexts == {Txt("yes")}

(***************************************************************************)
(* SchemaDetector.detect_column_type lines 52-103: unknown for a column    *)
(* without values; then datetime, numeric, boolean, categorical, in this   *)
(* order, and string when none applies.                                    *)
(***************************************************************************)
detect_column_type(c) ==
    LET non_null == dropna(c.cells)
    IN  CASE non_null = <<>> -> "unknown"
          [] datetime_parses(c.dtype, non_null) ->
                IF at_midnight(non_null[1]) THEN "date" ELSE "datetime"
          [] \A i \in DOMAIN non_null : non_null[i].k \in NumberKinds -> "integer"
          [] \A i \in DOMAIN non_null : non_null[i] \in BooleanTexts -> "boolean"
          [] /\ 10 * Cardinality(Range(non_null)) < Len(non_null)
             /\ Cardinality(Range(non_null)) < 50 -> "categorical"
          [] OTHER -> "string"

\* keyword in col_lower
Contains(n, keyword) ==
    \E i \in 1..(Len(n) - Len(keyword) + 1) :
        SubSeq(n, i, i + Len(keyword) - 1) = keyword

\* SchemaDetector.COLUMN_KEYWORDS lines 31-46, in declaration order
COLUMN_KEYWORDS ==
    << 
       [field |-> "date", keywords |-> <<
            <<"d", "a", "t", "e">>,
            <<"d", "a", "y">>,
            <<"t", "i", "m", "e">>,
            <<"t", "i", "m", "e", "s", "t", "a", "m", "p">>,
            <<"d", "a", "t", "e", "t", "i", "m", "e">>,
            <<"d", "t">>,
            <<"p", "e", "r", "i", "o", "d">> >>],
       [field |-> "sku", keywords |-> <<
            <<"s", "k", "u">>,
            <<"p", "r", "o", "d", "u", "c", "t", "_", "i", "d">>,
            <<"i", "t", "e", "m", "_", "i", "d">>,
            <<"p", "r", "o", "d", "u", "c", "t", "_", "c", "o", "d", "e">>,
            <<"i", "t", "e", "m", "_", "c", "o", "d", "e">>,
            <<"i", "d">> >>],
       [field |-> "quantity", keywords |-> <<
            <<"q", "u", "a", "n", "t", "i", "t", "y">>,
            <<"q", "t", "y">>,
            <<"a", "m", "o", "u", "n", "t">>,
            <<"c", "o", "u", "n", "t">>,
            <<"u", "n", "i", "t", "s">>,
            <<"v", "o", "l", "u", "m", "e">> >>],
       [field |-> "revenue", keywords |-> <<
            <<"r", "e", "v", "e", "n", "u", "e">>,
            <<"s", "a", "l", "e", "s">>,
            <<"p", "r", "i", "c", "e">>,
            <<"t", "o", "t", "a", "l">>,
            <<"a", "m", "o", "u", "n", "t">>,
            <<"v", "a", "l", "u", "e">>,
            <<"t", "u", "r", "n", "o", "v", "e", "r">> >>],
       [field |-> "stock", keywords |-> <<
            <<"s", "t", "o", "c", "k">>,
            <<"i", "n", "v", "e", "n", "t", "o", "r", "y">>,
            <<"o", "n", "_", "h", "a", "n", "d">>,
            <<"a", "v", "a", "i", "l", "a", "b", "l", "e">>,
            <<"b", "a", "l", "a", "n", "c", "e">> >>],
       [field |-> "category", keywords |-> <<
            <<"c", "a", "t", "e", "g", "o", "r", "y">>,
            <<"t", "y", "p", "e">>,
            <<"g", "r", "o", "u", "p">>,
            <<"d", "e", "p", "a", "r", "t", "m", "e", "n", "t">>,
            <<"c", "l", "a", "s", "s">>,
            <<"s", "e", "g", "m", "e", "n", "t">> >>] >>

\* the optional values of the model: <<>> for None, <<x>> for x
None == <<>>

Some(x) == <<x>>

\* SchemaDetector.suggest_column_mapping lines 108-115
suggest_column_mapping(column_name) ==
    LET col_lower == str_replace(str_replace(str_lower(column_name), " ", "_"), "-", "_")
        hits == {f \in DOMAIN COLUMN_KEYWORDS :
                    \E j \in DOMAIN COLUMN_KEYWORDS[f].keywords :
                        Contains(col_lower, COLUMN_KEYWORDS[f].keywords[j])}
    IN  IF hits = {} THEN None
        ELSE Some(COLUMN_KEYWORDS[CHOOSE f \in hits : \A g \in hits : f <= g].field)

\* a percentage x / n * 100, kept as the exact fraction; NaN when n = 0
Percentage(x, n) == [num |-> 100 * x, den |-> n]

\* p > k for a percentage p: false for NaN
PctGreater(p, k) == p.den > 0 /\ p.num > k * p.den

\* detect_schema lines 144-161: the profile of one column
column_info(c) ==
    [name |-> c.name,
     detected_type |-> detect_column_type(c),
     suggested_mapping |-> suggest_column_mapping(c.name),
     null_count |-> isna_sum(c.cells),
     null_percentage |-> Percentage(isna_sum(c.cells), Len(c.cells))]

\* the suggestion replaced by every later column that qualifies
last_suggested(columns, field, types) ==
    LET hits == {i \in DOMAIN columns :
                    /\ columns[i].suggested_mapping = Some(field)
                    /\ columns[i].detected_type \in types}
    IN  IF hits = {} THEN None
        ELSE Some(columns[CHOOSE i \in hits : \A j \in hits : j <= i].name)

\* detect_schema lines 166-173: the first column suggested as `field` (and, for
\* the date, of a date or datetime type)
first_suggested(columns, field, types) ==
    LET hits == {i \in DOMAIN columns :
                    /\ columns[i].suggested_mapping = Some(field)
                    /\ columns[i].detected_type \in types}
    IN  IF hits = {} THEN None
        ELSE Some(columns[CHOOSE i \in hits : \A j \in hits : i <= j].name)

ColumnTypes ==
    {"date", "datetime", "numeric", "integer", "string", "categorical", "boolean",
     "unknown"}

\* SchemaDetector.detect_schema lines 139-182
detect_schema(df) ==
    LET columns == [i \in DOMAIN df |-> column_info(df[i])]
    IN  [columns |-> columns,
         row_count |-> NRows(df),
         column_count |-> Len(df),
         suggested_date_column |-> first_suggested(columns, "date", {"date", "datetime"}),
         suggested_sku_column |-> first_suggested(columns, "sku", ColumnTypes)]

(***************************************************************************)
(* DataValidator on a table and its schema.  An issue is a record          *)
(* [severity, type, column]; the issues of the file structure carry no     *)
(* column.                                                                 *)
(***************************************************************************)
Issue(severity, type, column) == [severity |-> severity, type |-> type, column |-> column]

NoColumn == <<>>

\* more columns than this are unusual (validate_file_structure line 37)
ManyColumns == 50

\* DataValidator.validate_file_structure lines 25-54, on a table
file_structure_issues(df) ==
    (IF NRows(df) = 0 THEN <<Issue("error", "empty_file", NoColumn)>> ELSE <<>>)
    \o (IF Len(df) > ManyColumns
        THEN <<Issue("warning", "too_many_columns", NoColumn)>> ELSE <<>>)
    \o (IF Len(df) < 2 THEN <<Issue("error", "too_few_columns", NoColumn)>> ELSE <<>>)

\* the thresholds of validate_missing_values lines 65 and 73
ExcessivePct == 50

HighPct == 20

\* the thresholds taken as belonging to the tier above
missing_value_issue_inclusive(col_info) ==
    LET p == col_info.null_percentage
    IN  CASE p.den > 0 /\ p.num >= ExcessivePct * p.den ->
                <<Issue("error", "excessive_missing_values", col_info.name)>>
          [] p.den > 0 /\ p.num >= HighPct * p.den ->
                <<Issue("warning", "high_missing_values", col_info.name)>>
          [] PctGreater(p, 0) ->
                <<Issue("info", "missing_values", col_info.name)>>
          [] OTHER -> <<>>

\* validate_missing_values lines 62-88: the issue of one column of the schema
missing_value_issue(col_info) ==
    LET p == col_info.null_percentage
    IN  CASE PctGreater(p, ExcessivePct) ->
                <<Issue("error", "excessive_missing_values", col_info.name)>>
          [] PctGreater(p, HighPct) ->
                <<Issue("warning", "high_missing_values", col_info.name)>>
          [] PctGreater(p, 0) ->
                <<Issue("info", "missing_values", col_info.name)>>
          [] OTHER -> <<>>

\* the concatenation of the sequences f(1), ..., f(n)
RECURSIVE Concat(_, _)
Concat(f, n) == IF n = 0 THEN <<>> ELSE Concat(f, n - 1) \o f[n]

\* DataValidator.validate_missing_values lines 59-90
validate_missing_values(schema) ==
    Concat([i \in DOMAIN schema.columns |-> missing_value_issue(schema.columns[i])],
           Len(schema.columns))

\* pd.Timestamp('2000-01-01') of validate_date_range line 130, as a day number
Year2000 == 10957

\* the least span of validate_date_range line 142, in days
ShortRange == 30

Max(S) == CHOOSE x \in S : \A y \in S : y <= x

MinOf(S) == CHOOSE x \in S : \A y \in S : x <= y

(***************************************************************************)
(* DataValidator.validate_date_range lines 95-160.  `today` is the day of  *)
(* pd.Timestamp.now().  Comparing timezone-aware dates with the naive now  *)
(* raises inside the try block (line 119), which the except clause turns   *)
(* into the error date_validation_error.                                   *)
(***************************************************************************)
validate_date_range(df, date_column, today) ==
    IF \A i \in DOMAIN df : df[i].name # date_column THEN <<>>
    ELSE
    LET c == df[CHOOSE i \in DOMAIN df : df[i].name = date_column]
        dates == to_datetime(c.dtype, c.cells)
        valid_dates == dropna(dates)
        days == {valid_dates[i].v : i \in DOMAIN valid_dates}
    IN  IF valid_dates = <<>>
        THEN <<Issue("error", "invalid_dates", date_column)>>
        ELSE IF \E i \in DOMAIN valid_dates : valid_dates[i].k = "datetz"
        THEN <<Issue("error", "date_validation_error", date_column)>>
        ELSE (IF Max(days) > today
              THEN <<Issue("warning", "future_dates", date_column)>> ELSE <<>>)
          \o (IF MinOf(days) < Year2000
              THEN <<Issue("warning", "very_old_dates", date_column)>> ELSE <<>>)
          \o (IF Max(days) - MinOf(days) < ShortRange
              THEN <<Issue("warning", "short_date_range", date_column)>> ELSE <<>>)

\* the zeros counted as many from half of the rows on
numeric_value_issues_from_half(df, c) ==
    LET numeric_data == to_numeric(c.cells)
        negative_count == Len(SelectSeq(numeric_data, LAMBDA x : ~isna(x) /\ x.v < 0))
        zero_count == Len(SelectSeq(numeric_data, LAMBDA x : ~isna(x) /\ x.v = 0))
    IN  (IF negative_count > 0
         THEN <<Issue("info", "negative_values", c.name)>> ELSE <<>>)
        \o (IF 2 * zero_count >= NRows(df)
            THEN <<Issue("warning", "many_zeros", c.name)>> ELSE <<>>)

\* validate_numeric_values lines 172-194: the issues of one column
numeric_value_issues(df, c) ==
    LET numeric_data == to_numeric(c.cells)
        negative_count == Len(SelectSeq(numeric_data, LAMBDA x : ~isna(x) /\ x.v < 0))
        zero_count == Len(SelectSeq(numeric_data, LAMBDA x : ~isna(x) /\ x.v = 0))
    IN  (IF negative_count > 0
         THEN <<Issue("info", "negative_values", c.name)>> ELSE <<>>)
        \o (IF 2 * zero_count > NRows(df)
            THEN <<Issue("warning", "many_zeros", c.name)>> ELSE <<>>)

\* DataValidator.validate_numeric_values lines 165-199: the issues of the
\* columns named, in the order they are named; a name the table lacks is
\* passed over
validate_numeric_values(df, numeric_columns) ==
    Concat([n \in DOMAIN numeric_columns |->
               IF \E i \in DOMAIN df : df[i].name = numeric_columns[n]
               THEN numeric_value_issues(df,
                        df[CHOOSE i \in DOMAIN df : df[i].name = numeric_columns[n]])
               ELSE <<>>],
           Len(numeric_columns))

\* validate_data line 229: the names of the columns the schema has as numeric
\* or integer
numeric_cols(schema) ==
    LET numeric == SelectSeq(schema.columns,
                       LAMBDA c : c.detected_type \in {"numeric", "integer"})
    IN  [n \in DOMAIN numeric |-> numeric[n].name]

CountSeverity(issues, severity) ==
    Len(SelectSeq(issues, LAMBDA i : i.severity = severity))

\* a verdict that lets the errors of the date checks pass
is_valid_but_for_dates(issues) ==
    CountSeverity(SelectSeq(issues, LAMBDA i : i.type \notin
        {"invalid_dates", "date_validation_error"}), "error") = 0

\* validate_data lines 233 and 238: valid when no issue is an error
is_valid(issues) == CountSeverity(issues, "error") = 0

(***************************************************************************)
(* DataValidator.validate_data lines 217-256.                              *)
(***************************************************************************)
validation_report(df, schema, today) ==
    LET all_issues ==
            file_structure_issues(df)
            \o validate_missing_values(schema)
            \o (IF schema.suggested_date_column # None
                THEN validate_date_range(df, schema.suggested_date_column[1], today)
                ELSE <<>>)
            \o validate_numeric_values(df, numeric_cols(schema))
    IN  [is_valid |-> is_valid(all_issues),
         total_issues |-> Len(all_issues),
         errors |-> CountSeverity(all_issues, "error"),
         warnings |-> CountSeverity(all_issues, "warning"),
         infos |-> CountSeverity(all_issues, "info"),
         issues |-> all_issues]

(***************************************************************************)
(* The target schema and the transformation of the pipeline.               *)
(***************************************************************************)
Name_date == <<"d", "a", "t", "e">>

Name_sku_id == <<"s", "k", "u", "_", "i", "d">>

Name_sales_quantity == <<"s", "a", "l", "e", "s", "_", "q", "u", "a", "n", "t", "i", "t", "y">>

Name_unit_price == <<"u", "n", "i", "t", "_", "p", "r", "i", "c", "e">>

Name_sales_revenue == <<"s", "a", "l", "e", "s", "_", "r", "e", "v", "e", "n", "u", "e">>

Name_stock_level == <<"s", "t", "o", "c", "k", "_", "l", "e", "v", "e", "l">>

Name_category == <<"c", "a", "t", "e", "g", "o", "r", "y">>

\* a column mapping {old_name: new_name} is a function; <<>> is the empty
\* dict, and None, which the code treats alike
NoMapping == <<>>

\* DataProcessor.standardize_column_mapping line 127: df.rename(columns=mapping)
standardize_column_mapping(df, mapping) ==
    [i \in DOMAIN df |->
        IF df[i].name \in DOMAIN mapping
        THEN [df[i] EXCEPT !.name = mapping[df[i].name]]
        ELSE df[i]]

\* prepare_for_database lines 137-145: the required columns and their defaults
required_columns(today) ==
    << [name |-> Name_date, dtype |-> "datetime64tz", default |-> DayTz(today)],
       [name |-> Name_sku_id, dtype |-> "object", default |-> Txt("UNKNOWN")],
       [name |-> Name_sales_quantity, dtype |-> "float64", default |-> Num(0)],
       [name |-> Name_unit_price, dtype |-> "float64", default |-> Num(0)],
       [name |-> Name_sales_revenue, dtype |-> "float64", default |-> Num(0)],
       [name |-> Name_stock_level, dtype |-> "float64", default |-> Num(0)],
       [name |-> Name_category, dtype |-> "object", default |-> Txt("")] >>

\* prepare_for_database lines 147-149 for the first k required columns
RECURSIVE add_missing_columns(_, _, _)
add_missing_columns(df, required, k) ==
    IF k = 0 THEN df
    ELSE LET before == add_missing_columns(df, required, k - 1)
             col == required[k]
         IN  IF \E i \in DOMAIN before : before[i].name = col.name
             THEN before
             ELSE Append(before,
                         [name |-> col.name, dtype |-> col.dtype,
                          cells |-> [r \in 1..NRows(df) |-> col.default]])

\* a default filling that also sets the required columns it finds
prepare_for_database_overwriting(df, column_mapping, today) ==
    LET required == required_columns(today)
        mapped == IF column_mapping # NoMapping
                  THEN standardize_column_mapping(df, column_mapping) ELSE df
        reset == [i \in DOMAIN mapped |->
                    IF \E k \in DOMAIN required : required[k].name = mapped[i].name
                    THEN [mapped[i] EXCEPT !.cells =
                            [r \in DOMAIN mapped[i].cells |->
                                required[CHOOSE k \in DOMAIN required :
                                    required[k].name = mapped[i].name].default]]
                    ELSE mapped[i]]
    IN  add_missing_columns(reset, required, Len(required))

\* DataProcessor.prepare_for_database lines 134-151
prepare_for_database(df, column_mapping, today) ==
    LET required == required_columns(today)
        mapped == IF column_mapping # NoMapping
                  THEN standardize_column_mapping(df, column_mapping) ELSE df
    IN  add_missing_columns(mapped, required, Len(required))

\* preview_cleaned_data lines 145-150: None for NaN, the ISO string of a Timestamp
json_cell(dtype, c) ==
    CASE isna(c) -> [k |-> "None", v |-> 0]
      [] dtype \in DatetimeDtypes -> [k |-> "iso" \o c.k, v |-> c.v]
      [] OTHER -> c

\* df.head(n).to_dict("records") with the conversion of lines 142-151
json_records(df, n) ==
    [r \in 1..Min(n, NRows(df)) |-> [j \in DOMAIN df |-> json_cell(df[j].dtype, df[j].cells[r])]]

\* a preview that lays the defaults before it maps the columns
preview_output_defaults_first(file, column_mapping, today) ==
    LET cleaned == clean_dataframe(read_file(file), today)
        prepared == prepare_for_database(cleaned, NoMapping, today)
        df == IF column_mapping # NoMapping
              THEN standardize_column_mapping(prepared, column_mapping) ELSE prepared
    IN  [preview |-> json_records(df, PreviewRows),
         total_rows |-> NRows(df),
         columns |-> Columns(df)]

(***************************************************************************)
(* preview_cleaned_data lines 126-157, from read_file on: read, clean, map *)
(* when there is a mapping, fill the defaults, and return the first rows,  *)
(* the number of rows and the column names.                                *)
(***************************************************************************)
preview_output(file, column_mapping, today) ==
    LET cleaned == clean_dataframe(read_file(file), today)
        mapped == IF column_mapping # NoMapping
                  THEN standardize_column_mapping(cleaned, column_mapping) ELSE cleaned
        df == prepare_for_database(mapped, NoMapping, today)
    IN  [preview |-> json_records(df, PreviewRows),
         total_rows |-> NRows(df),
         columns |-> Columns(df)]

\* row.get(name) of _insert_to_database, on a table that has the column
row_get(df, r, name) == df[CHOOSE i \in DOMAIN df : df[i].name = name].cells[r]

\* float(x) and int(x) raise for what is no number (a text, the empty string)
float_raises(c) == c.k \notin NumberKinds

\* _insert_to_database lines 93-104: building the SalesData of row r raises
record_raises(df, r) ==
    \/ float_raises(row_get(df, r, Name_sales_quantity))
    \/ float_raises(row_get(df, r, Name_unit_price))
    \/ float_raises(row_get(df, r, Name_sales_revenue))
    \/ /\ ~isna(row_get(df, r, Name_stock_level))
       /\ float_raises(row_get(df, r, Name_stock_level))

\* _insert_to_database lines 93-104: the SalesData of row r
sales_record(df, r) ==
    [date |-> row_get(df, r, Name_date),
     sku_id |-> row_get(df, r, Name_sku_id),
     sales_quantity |-> row_get(df, r, Name_sales_quantity),
     unit_price |-> row_get(df, r, Name_unit_price),
     sales_revenue |-> row_get(df, r, Name_sales_revenue),
     stock_level |-> IF isna(row_get(df, r, Name_stock_level)) THEN Num(0)
                     ELSE row_get(df, r, Name_stock_level),
     category |-> row_get(df, r, Name_category)]

\* _insert_to_database lines 90-109: the records stored, one for each row in
\* the order of the table; None when building one of them raises
insert_to_database(df) ==
    IF \E r \in 1..NRows(df) : record_raises(df, r) THEN None
    ELSE Some([r \in 1..NRows(df) |-> sales_record(df, r)])

(***************************************************************************)
(* process_upload lines 56-70: read, clean, map when there is a mapping,   *)
(* fill the defaults, insert.  `cleaned` is the table after line 60, `df`  *)
(* the table handed to _insert_to_database at line 70, `records` what it   *)
(* stores; rows_processed and rows_inserted are the stats of the run.      *)
(***************************************************************************)
process_dataset(file, column_mapping, today) ==
    LET read == read_file(file)
        cleaned == clean_dataframe(read, today)
        mapped == IF column_mapping # NoMapping
                  THEN standardize_column_mapping(cleaned, column_mapping) ELSE cleaned
        df == prepare_for_database(mapped, NoMapping, today)
        records == insert_to_database(df)
    IN  [rows_processed |-> NRows(read),
         cleaned |-> cleaned,
         mapped |-> mapped,
         df |-> df,
         records |-> records,
         rows_inserted |-> IF records = None THEN 0 ELSE Len(records[1])]

(***************************************************************************)
(* upload_file lines 51-68, the detect phase: read, clean the names, infer *)
(* and convert the types (no filling), detect the schema, validate.        *)
(***************************************************************************)
detect_phase(file, today) ==
    LET df == infer_and_convert_types(clean_column_names(read_file(file)))
        schema == detect_schema(df)
    IN  [df |-> df, schema |-> schema, validation |-> validation_report(df, schema, today)]

(***************************************************************************)
(* The specifications of the data services.  `arg` is a stored file with   *)
(* the column mapping of its upload and the day of the clock; `ret` keeps  *)
(* what the detect phase of upload_file, the transformation of             *)
(* process_upload and the calls of preview_cleaned_data returned for it.   *)
(***************************************************************************)
requestVars == <<raw_uploads, sales_data, files, run, now>>

NoRequests ==
    /\ raw_uploads = <<>>
    /\ sales_data = <<>>
    /\ files = [u \in UploadIds |-> NoFile]
    /\ run = [h \in Handlers |-> IdleRun]
    /\ now = 1

NoResults == [detected |-> None, processed |-> None, previews |-> <<>>]

\* upload_file lines 51-68 on the file
DetectPhase ==
    /\ ret.detected = None
    /\ ret' = [ret EXCEPT !.detected = Some(detect_phase(arg.file, arg.today))]
    /\ UNCHANGED <<requestVars, arg>>

\* process_upload lines 56-67 on the file
ProcessTransform ==
    /\ ret.processed = None
    /\ ret' = [ret EXCEPT !.processed =
                 Some([today |-> arg.today,
                       out |-> process_dataset(arg.file, arg.mapping, arg.today)])]
    /\ UNCHANGED <<requestVars, arg>>

\* the preview calls made on one file
PreviewCalls == 2

\* preview_cleaned_data on the file
PreviewCall ==
    /\ Len(ret.previews) < PreviewCalls
    /\ ret' = [ret EXCEPT !.previews =
                 Append(@, [today |-> arg.today,
                            out |-> preview_output(arg.file, arg.mapping, arg.today)])]
    /\ UNCHANGED <<requestVars, arg>>

\* a day of the clock: 2024-10-04, in days since 1970-01-01
FirstDay == 20000

\* the day the calls start on, and the last day of the model
Today == FirstDay + ShortRange - 1

LastDay == Today + 1

\* the clock passes midnight
Midnight ==
    /\ arg.today < LastDay
    /\ arg' = [arg EXCEPT !.today = @ + 1]
    /\ UNCHANGED <<requestVars, ret>>

(***************************************************************************)
(* SpecColumn: files of one column, of up to MaxLen rows.                  *)
(***************************************************************************)
MaxLen == 6

Name_qty == <<"Q", "t", "y">>

ColumnCells == {Num(7), Txt("abc"), Txt("yes"), NaN}

ColumnFiles ==
    {<<[name |-> Name_qty, cells |-> q]>> : q \in SeqsUpTo(ColumnCells, MaxLen)}

InitColumn ==
    /\ NoRequests
    /\ arg \in [file : ColumnFiles, mapping : {NoMapping}, today : {Today}]
    /\ ret = NoResults

NextColumn == DetectPhase \/ ProcessTransform

SpecColumn == InitColumn /\ [][NextColumn]_vars

(***************************************************************************)
(* SpecData: files of a date column and a quantity column of MaxRows rows, *)
(* files of the quantity column alone, a file with a timezone in its       *)
(* dates, a file that has the seven required columns, and a file of more   *)
(* rows than a preview returns; with and without a column mapping.         *)
(***************************************************************************)
Name_order_date == <<" ", "O", "r", "d", "e", "r", " ", "D", "a", "t", "e">>

DateCells == {Day(FirstDay), Day(FirstDay + ShortRange - 1), Day(FirstDay + ShortRange)}

QtyCells == {Num(0), Num(-1), Txt("abc"), NaN}

SeqsOf(S, n) == {q \in SeqsUpTo(S, n) : Len(q) = n}

FullFile ==
    << [name |-> Name_date, cells |-> [r \in 1..MaxRows |-> Day(FirstDay)]],
       [name |-> Name_sku_id, cells |-> [r \in 1..MaxRows |-> Txt("abc")]],
       [name |-> Name_sales_quantity, cells |-> [r \in 1..MaxRows |-> Num(7)]],
       [name |-> Name_unit_price, cells |-> [r \in 1..MaxRows |-> Num(7)]],
       [name |-> Name_sales_revenue, cells |-> [r \in 1..MaxRows |-> Num(7)]],
       [name |-> Name_stock_level, cells |-> [r \in 1..MaxRows |-> Num(7)]],
       [name |-> Name_category, cells |-> [r \in 1..MaxRows |-> Txt("yes")]] >>

LongFile == <<[name |-> Name_qty, cells |-> [r \in 1..(PreviewRows + 1) |-> Num(7)]]>>

TimezoneFile ==
    << [name |-> Name_order_date, cells |-> [r \in 1..MaxRows |-> DayTz(FirstDay)]],
       [name |-> Name_qty, cells |-> [r \in 1..MaxRows |-> Num(7)]] >>

DataFiles ==
    {<<[name |-> Name_order_date, cells |-> d], [name |-> Name_qty, cells |-> q]>> :
        d \in SeqsOf(DateCells, MaxRows), q \in SeqsOf(QtyCells, MaxRows)}
    \cup {<<[name |-> Name_qty, cells |-> q]>> : q \in SeqsOf(QtyCells, MaxRows)}
    \cup {FullFile, LongFile, TimezoneFile}

\* the mapping a caller saves for these files, keyed by the cleaned names
DataMapping ==
    [n \in {clean_column_name(Name_order_date), clean_column_name(Name_qty)} |->
        IF n = clean_column_name(Name_qty) THEN Name_sales_quantity ELSE Name_date]

InitData ==
    /\ NoRequests
    /\ arg \in [file : DataFiles, mapping : {NoMapping, DataMapping}, today : {Today}]
    /\ ret = NoResults

NextData == DetectPhase \/ ProcessTransform \/ PreviewCall \/ Midnight

SpecData == InitData /\ [][NextData]_vars

(***************************************************************************)
(* C11 as claimed: two preview calls on the same file with the same column *)
(* mapping return identical output.                                        *)
(***************************************************************************)
C11_AsClaimed ==
    Len(ret.previews) = PreviewCalls => ret.previews[1].out = ret.previews[2].out

\* the table the calls work on has a column `date` once cleaned and mapped
HasDateColumn ==
    \E i \in DOMAIN process_dataset(arg.file, arg.mapping, arg.today).mapped :
        process_dataset(arg.file, arg.mapping, arg.today).mapped[i].name = Name_date

\* out with the cells of its column `date` blanked
WithoutDateCells(out) ==
    [out EXCEPT !.preview =
        [r \in DOMAIN out.preview |->
            [j \in DOMAIN out.preview[r] |->
                IF out.columns[j] = Name_date THEN NaN ELSE out.preview[r][j]]]]

(***************************************************************************)
(* C11: two preview calls on the same file with the same column mapping    *)
(* return identical output when the cleaned and mapped table has a column  *)
(* `date`, or when both calls are made on the same day; in any case their  *)
(* outputs (rows, total_rows, columns) differ at most in the cells of the  *)
(* column `date`, which is then the default: the day of the call.          *)
(***************************************************************************)
C11_PreviewIdempotent ==
    Len(ret.previews) = PreviewCalls =>
        /\ (HasDateColumn \/ ret.previews[1].today = ret.previews[2].today)
              => ret.previews[1].out = ret.previews[2].out
        /\ WithoutDateCells(ret.previews[1].out) = WithoutDateCells(ret.previews[2].out)

\* two previews made on different days of a file with a date column and gaps,
\* whose other required fields are filled with their defaults, are the same
C11_Witness ==
    /\ Len(ret.previews) = PreviewCalls
    /\ ret.previews[1].today # ret.previews[2].today
    /\ arg.mapping = DataMapping
    /\ Len(arg.file) = 2
    /\ \E r \in DOMAIN arg.file[2].cells : isna(arg.file[2].cells[r])
    /\ Len(ret.previews[1].out.columns) > Len(arg.file)
    /\ ret.previews[1].out = ret.previews[2].out

(***************************************************************************)
(* C12 as claimed: whenever they are made, a preview returns the first     *)
(* rows (at most 20), the number of rows and the columns of the table that *)
(* a process run for the same file and column mapping hands to the         *)
(* insertion.                                                              *)
(***************************************************************************)
C12_AsClaimed ==
    \A i \in DOMAIN ret.previews :
        ret.processed # None
           => /\ ret.previews[i].out.preview
                    = json_records(ret.processed[1].out.df, PreviewRows)
              /\ ret.previews[i].out.total_rows = NRows(ret.processed[1].out.df)
              /\ ret.previews[i].out.columns = Columns(ret.processed[1].out.df)

(***************************************************************************)
(* C12: a preview returns the first rows (at most 20) of the table that a  *)
(* process run made on the same day for the same file and column mapping   *)
(* hands to the insertion, with its number of rows and its columns: both   *)
(* read, clean, map and fill the defaults, in this order.                  *)
(***************************************************************************)
C12_PreviewIsProcess ==
    \A i \in DOMAIN ret.previews :
        (ret.processed # None /\ ret.processed[1].today = ret.previews[i].today)
           => /\ ret.previews[i].out.preview
                    = json_records(ret.processed[1].out.df, PreviewRows)
              /\ Len(ret.previews[i].out.preview)
                    = Min(PreviewRows, NRows(ret.processed[1].out.df))
              /\ ret.previews[i].out.total_rows = NRows(ret.processed[1].out.df)
              /\ ret.previews[i].out.columns = Columns(ret.processed[1].out.df)

\* a preview and a process run of a mapped file with more rows than a preview
\* returns: the preview stops at 20 rows of the table the run built
C12_Witness ==
    /\ ret.processed # None
    /\ Len(ret.previews) > 0
    /\ ret.previews[1].today = ret.processed[1].today
    /\ arg.mapping = DataMapping
    /\ Len(ret.previews[1].out.preview) = PreviewRows
    /\ NRows(ret.processed[1].out.df) > PreviewRows
    /\ \E j \in DOMAIN ret.previews[1].out.columns :
          ret.previews[1].out.columns[j] = Name_sales_quantity
                /\ ret.previews[1].out.preview[1][j] = Num(7)

MissingValueTypes == {"excessive_missing_values", "high_missing_values", "missing_values"}

\* the issues of the missing-value check that the report has on column i
MissingIssuesOn(d, i) ==
    SelectSeq(d.validation.issues,
              LAMBDA x : x.type \in MissingValueTypes /\ x.column = d.df[i].name)

(***************************************************************************)
(* C13: for every column of a profiled table, with n empty fields among    *)
(* its L rows, the report holds exactly one missing-value issue when       *)
(* n > 0 and none when n = 0: the error excessive_missing_values when      *)
(* n/L > 50%, the warning high_missing_values when 20% < n/L <= 50%, the   *)
(* info missing_values when 0 < n/L <= 20%.                                *)
(***************************************************************************)
C13_MissingValueTiers ==
    ret.detected # None =>
        LET d == ret.detected[1]
        IN  \A i \in DOMAIN d.df :
                LET n == isna_sum(d.df[i].cells)
                    L == Len(d.df[i].cells)
                    name == d.df[i].name
                IN  MissingIssuesOn(d, i) =
                        IF 2 * n > L
                        THEN <<Issue("error", "excessive_missing_values", name)>>
                        ELSE IF 5 * n > L
                        THEN <<Issue("warning", "high_missing_values", name)>>
                        ELSE IF n > 0
                        THEN <<Issue("info", "missing_values", name)>>
                        ELSE <<>>

\* a column with exactly 20% of its fields empty has been profiled: the one
\* issue on it is the info
C13_Witness ==
    /\ ret.detected # None
    /\ 5 * isna_sum(ret.detected[1].df[1].cells) = Len(ret.detected[1].df[1].cells)
    /\ isna_sum(ret.detected[1].df[1].cells) > 0
    /\ MissingIssuesOn(ret.detected[1], 1)
          = <<Issue("info", "missing_values", ret.detected[1].df[1].name)>>

(***************************************************************************)
(* C14: in every report of validate_data, is_valid is true exactly when no *)
(* issue of the report has the severity error, whatever its type;          *)
(* warnings and infos do not count.                                        *)
(***************************************************************************)
C14_ValidIffNoError ==
    ret.detected # None =>
        LET report == ret.detected[1].validation
        IN  /\ report.is_valid
                <=> (\A i \in DOMAIN report.issues : report.issues[i].severity # "error")
            /\ report.is_valid <=> report.errors = 0
            /\ report.errors + report.warnings + report.infos = report.total_issues

\* a report whose only error comes from the date check is not valid
C14_Witness ==
    /\ ret.detected # None
    /\ ~ret.detected[1].validation.is_valid
    /\ ret.detected[1].validation.errors = 1
    /\ \E i \in DOMAIN ret.detected[1].validation.issues :
          ret.detected[1].validation.issues[i].type = "date_validation_error"

\* the parsed days of the suggested date column of a detect phase
SuggestedDateDays(d) ==
    LET c == d.df[CHOOSE i \in DOMAIN d.df : d.df[i].name = d.schema.suggested_date_column[1]]
        dates == dropna(to_datetime(c.dtype, c.cells))
    IN  {dates[i].v : i \in DOMAIN dates}

(***************************************************************************)
(* C15 as claimed: for the suggested date column, with at least one        *)
(* parseable date, the report has the warning short_date_range exactly     *)
(* when the number of days from the first to the last date, both counted,  *)
(* is under 30; and the warning alone leaves the report valid.             *)
(***************************************************************************)
C15_AsClaimed ==
    ( /\ ret.detected # None
      /\ ret.detected[1].schema.suggested_date_column # None
      /\ SuggestedDateDays(ret.detected[1]) # {}
      /\ \A i \in DOMAIN ret.detected[1].validation.issues :
            ret.detected[1].validation.issues[i].type # "date_validation_error" )
    => LET d == ret.detected[1]
           days == SuggestedDateDays(d)
           warned == \E i \in DOMAIN d.validation.issues :
                        d.validation.issues[i].type = "short_date_range"
       IN  /\ warned <=> (Max(days) - MinOf(days) + 1 < ShortRange)
           /\ (warned /\ d.validation.errors = 0) => d.validation.is_valid

(***************************************************************************)
(* C16 as claimed: a column in which at least 80% of the values that are   *)
(* not empty spell numbers has the type numeric or integer in the schema   *)
(* of the detect phase.                                                    *)
(***************************************************************************)
C16_AsClaimed ==
    ret.detected # None =>
        \A i \in DOMAIN arg.file :
            LET non_null == dropna(arg.file[i].cells)
            IN  AtLeast80Percent(notna_sum(to_numeric(non_null)), Len(non_null))
                   => ret.detected[1].schema.columns[i].detected_type
                         \in {"numeric", "integer"}

(***************************************************************************)
(* C17 as claimed: in a column that type inference converts to numbers,    *)
(* every value that does not spell a number is null, not zero, in the      *)
(* cleaned table of the process run.                                       *)
(***************************************************************************)
C17_AsClaimed ==
    ret.processed # None =>
        \A i \in DOMAIN arg.file :
            ret.processed[1].out.cleaned[i].dtype \in NumericDtypes
               => \A r \in DOMAIN arg.file[i].cells :
                     arg.file[i].cells[r].k = "txt"
                        => isna(ret.processed[1].out.cleaned[i].cells[r])

RequiredNames ==
    {Name_date, Name_sku_id, Name_sales_quantity, Name_unit_price, Name_sales_revenue,
     Name_stock_level, Name_category}

(***************************************************************************)
(* C19: the table that prepare_for_database returns has the seven required *)
(* columns; the columns of the table it was given come first, each with    *)
(* its name and its values as they were; every column added holds the      *)
(* default of its field in every row; and a table that had the seven       *)
(* columns is returned as it was.                                          *)
(***************************************************************************)
C19_DefaultsOnlyFillGaps ==
    ret.processed # None =>
        LET before == ret.processed[1].out.mapped
            after == ret.processed[1].out.df
            required == required_columns(ret.processed[1].today)
        IN  /\ RequiredNames \subseteq Range(Columns(after))
            /\ Len(after) >= Len(before)
            /\ \A i \in DOMAIN before : after[i] = before[i]
            /\ \A i \in DOMAIN after : i > Len(before) =>
                  \E k \in DOMAIN required :
                      /\ after[i].name = required[k].name
                      /\ after[i].name \notin Range(Columns(before))
                      /\ \A r \in DOMAIN after[i].cells : after[i].cells[r] = required[k].default
            /\ RequiredNames \subseteq Range(Columns(before)) => after = before

\* a table that had a date and a sales_quantity of its own, not the defaults,
\* has been given the five fields it lacked
C19_Witness ==
    /\ ret.processed # None
    /\ Len(ret.processed[1].out.mapped) = 2
    /\ Len(ret.processed[1].out.df) = 2 + 5
    /\ ret.processed[1].out.mapped[1].name = Name_date
    /\ ret.processed[1].out.mapped[2].name = Name_sales_quantity
    /\ ret.processed[1].out.df[2].cells[1] = Num(-1)
    /\ ret.processed[1].out.df[1].cells[1] = Day(FirstDay)

(***************************************************************************)
(* C20 as claimed: a process run that has committed "processing" and ends  *)
(* by returning or raising (it is not killed) leaves the status            *)
(* "processed" or "error", never "processing" or "uploaded".               *)
(***************************************************************************)
C20_AsClaimed ==
    [][\A h \in Handlers :
        (PastProcessingCommit(h) /\ run'[h].pc = "done")
           => raw_uploads'[run[h].upload_id].status \in {"processed", "error"}
    ]_vars

\* the fields of a RawUpload that process_upload assigns (lines 47, 73-74, 81-82)
ProcessWrites == {"status", "error_message", "processed_at"}

\* the other fields of an upload row
Frame(row) == [k \in DOMAIN row \ ProcessWrites |-> row[k]]

(***************************************************************************)
(* C21: no step of a process call (its load, its rejection, its commits of *)
(* "processing", "processed" and "error", its failures) creates or removes *)
(* an upload or changes a field of an upload other than status,            *)
(* error_message and processed_at: filename, file_path, row_count,         *)
(* column_count, detected_schema, validation_report and column_mapping     *)
(* stay as they are, a mapping saved while the run was under way included. *)
(***************************************************************************)
C21_ProcessFrame ==
    [][\A h \in Handlers :
        (Moves(h) /\ (run[h].op = "process" \/ run'[h].op = "process"))
           => /\ DOMAIN raw_uploads' = DOMAIN raw_uploads
              /\ \A u \in DOMAIN raw_uploads :
                    Frame(raw_uploads'[u]) = Frame(raw_uploads[u])
    ]_vars

\* a run that loaded the upload without a mapping has marked it processed; the
\* mapping saved meanwhile is still there, with the counts and the report
C21_Witness ==
    \E h \in Handlers :
        /\ run[h].pc = "done"
        /\ run[h].op = "process"
        /\ run[h].result = "processed"
        /\ StatusOf(run[h].upload_id) = "processed"
        /\ raw_uploads[run[h].upload_id].column_mapping \in Mappings
        /\ raw_uploads[run[h].upload_id].row_count = MaxRows
        /\ raw_uploads[run[h].upload_id].filename = run[h].upload_id
        /\ raw_uploads[run[h].upload_id].validation_report.is_valid
        /\ \A g \in Handlers \ {h} : run[g].pc = "idle"

(***************************************************************************)
(* SpecSchema: files of MaxColumns columns and one row, their names drawn  *)
(* (without repetition) from names of the date family, of the sku family,  *)
(* of both and of neither, each column holding a date or a text.           *)
(***************************************************************************)
MaxColumns == 4

Name_Date == <<"D", "a", "t", "e">>

Name_Day_Id == <<"D", "a", "y", " ", "I", "d">>

Name_Dt == <<"D", "t">>

Name_SKU == <<"S", "K", "U">>

Name_Item_Id == <<"I", "t", "e", "m", "-", "I", "d">>

SchemaNames == {Name_Date, Name_Day_Id, Name_Dt, Name_SKU, Name_Item_Id, Name_qty}

SchemaCells == {Day(FirstDay), Txt("abc")}

SchemaFiles ==
    {f \in [1..MaxColumns -> [name : SchemaNames, cells : SeqsOf(SchemaCells, 1)]] :
        \A i, j \in 1..MaxColumns : f[i].name = f[j].name => i = j}

InitSchema ==
    /\ NoRequests
    /\ arg \in [file : SchemaFiles, mapping : {NoMapping}, today : {Today}]
    /\ ret = NoResults

NextSchema == DetectPhase

SpecSchema == InitSchema /\ [][NextSchema]_vars

\* the keyword families with a keyword that is a substring of the name
FamiliesIn(n) ==
    {f \in DOMAIN COLUMN_KEYWORDS :
        \E j \in DOMAIN COLUMN_KEYWORDS[f].keywords :
            Contains(n, COLUMN_KEYWORDS[f].keywords[j])}

\* column i of the profile qualifies as the date column, as the sku column
QualifiesAsDate(col) ==
    col.suggested_mapping = Some("date") /\ col.detected_type \in {"date", "datetime"}

QualifiesAsSku(col) == col.suggested_mapping = Some("sku")

(***************************************************************************)
(* C22: in the schema profile of every file, the suggested role of a       *)
(* column is the first keyword family, in declaration order, with a        *)
(* keyword that is a substring of its name (none when no family has one);  *)
(* the suggested date column is the first column, in the order of the      *)
(* file, whose role is date and whose detected type is date or datetime;   *)
(* the suggested sku column is the first column whose role is sku; each is *)
(* null when no column qualifies.                                          *)
(***************************************************************************)
C22_FirstQualifying ==
    ret.detected # None =>
        LET schema == ret.detected[1].schema
            columns == schema.columns
        IN  /\ Len(columns) = Len(arg.file)
            /\ \A i \in DOMAIN columns :
                  /\ columns[i].name = clean_column_name(arg.file[i].name)
                  /\ \A f \in DOMAIN COLUMN_KEYWORDS :
                        ( /\ f \in FamiliesIn(columns[i].name)
                          /\ \A g \in 1..(f - 1) : g \notin FamiliesIn(columns[i].name) )
                           => columns[i].suggested_mapping = Some(COLUMN_KEYWORDS[f].field)
                  /\ FamiliesIn(columns[i].name) = {}
                        => columns[i].suggested_mapping = None
                  /\ ( /\ QualifiesAsDate(columns[i])
                       /\ \A j \in 1..(i - 1) : ~QualifiesAsDate(columns[j]) )
                        => schema.suggested_date_column = Some(columns[i].name)
                  /\ ( /\ QualifiesAsSku(columns[i])
                       /\ \A j \in 1..(i - 1) : ~QualifiesAsSku(columns[j]) )
                        => schema.suggested_sku_column = Some(columns[i].name)
            /\ (\A i \in DOMAIN columns : ~QualifiesAsDate(columns[i]))
                  => schema.suggested_date_column = None
            /\ (\A i \in DOMAIN columns : ~QualifiesAsSku(columns[i]))
                  => schema.suggested_sku_column = None

\* `Date` holds a text and is passed over, `Day Id` (of the date family, though
\* it has the sku keyword `id`) is the date column and the later `Dt`, a date
\* too, has not replaced it; `SKU` is the sku column and the later `Item-Id`
\* would be, had it come first
C22_Witness ==
    /\ ret.detected # None
    /\ Columns(arg.file) = <<Name_Date, Name_Day_Id, Name_Dt, Name_SKU>>
    /\ arg.file[1].cells[1] = Txt("abc")
    /\ arg.file[2].cells[1] = Day(FirstDay)
    /\ arg.file[3].cells[1] = Day(FirstDay)
    /\ ret.detected[1].schema.columns[1].suggested_mapping = Some("date")
    /\ ret.detected[1].schema.columns[3].detected_type = "date"
    /\ ret.detected[1].schema.suggested_date_column = Some(clean_column_name(Name_Day_Id))
    /\ ret.detected[1].schema.suggested_sku_column = Some(clean_column_name(Name_SKU))

(***************************************************************************)
(* SpecTimes: files of one column `Order Date` of up to MaxLen rows, each  *)
(* a day at midnight, a day at half past noon, or empty.                   *)
(***************************************************************************)
TimeCells == {Day(FirstDay), HalfPastNoon(FirstDay), NaN}

TimeFiles ==
    {<<[name |-> Name_order_date, cells |-> q]>> : q \in SeqsUpTo(TimeCells, MaxLen)}

InitTimes ==
    /\ NoRequests
    /\ arg \in [file : TimeFiles, mapping : {NoMapping}, today : {Today}]
    /\ ret = NoResults

NextTimes == DetectPhase

SpecTimes == InitTimes /\ [][NextTimes]_vars

\* the values of the column of the file that are timestamps
TimestampsOf(cells) == SelectSeq(cells, LAMBDA c : c.k \in TimestampKinds)

(***************************************************************************)
(* C23 as claimed: a column whose values (the empty ones apart) all parse  *)
(* as timestamps has the detected type `date` when every one of them is at *)
(* midnight, and `datetime` when any of them, the first or a later one, is *)
(* not.                                                                    *)
(***************************************************************************)
C23_AsClaimed ==
    ret.detected # None =>
        \A i \in DOMAIN arg.file :
            LET values == dropna(arg.file[i].cells)
            IN  (values # <<>> /\ TimestampsOf(values) = values)
                   => ret.detected[1].schema.columns[i].detected_type =
                         IF \A r \in DOMAIN values : values[r].k # "time"
                         THEN "date" ELSE "datetime"

\* what the code decides by: the type is `date` or `datetime` as the first
\* value of the column is at midnight or not
FirstValueDecides ==
    ret.detected # None =>
        \A i \in DOMAIN arg.file :
            LET values == dropna(arg.file[i].cells)
            IN  (values # <<>> /\ TimestampsOf(values) = values)
                   => ret.detected[1].schema.columns[i].detected_type =
                         IF values[1].k # "time" THEN "date" ELSE "datetime"

(***************************************************************************)
(* SpecNumeric: files of a column `Qty` of numbers and empty fields and a  *)
(* column `Flag` of True and False, of up to MaxNumericRows rows.  The     *)
(* detect phase is run on the file, and validate_numeric_values is applied *)
(* to the table of the detect phase with the column names given to it.     *)
(***************************************************************************)
MaxNumericRows == 4

Name_flag == <<"F", "l", "a", "g">>

Name_absent == <<"n", "o", "n", "e">>

NumberCells == {Num(0), Num(-1), Num(7), NaN}

BoolCells == {Bool(TRUE), Bool(FALSE)}

NumericFiles ==
    UNION {{<<[name |-> Name_qty, cells |-> q], [name |-> Name_flag, cells |-> b]>> :
               q \in SeqsOf(NumberCells, n), b \in SeqsOf(BoolCells, n)} :
           n \in 1..MaxNumericRows}

\* the lists of column names given to validate_numeric_values
NumericColumnLists ==
    {<<clean_column_name(Name_qty), clean_column_name(Name_flag)>>,
     <<Name_absent, clean_column_name(Name_qty)>>}

InitNumeric ==
    /\ NoRequests
    /\ arg \in [file : NumericFiles, mapping : {NoMapping}, today : {Today},
                numeric_columns : NumericColumnLists]
    /\ ret = [detected |-> None, numeric |-> None]

\* DataValidator.validate_numeric_values on the table of the detect phase
ValidateNumeric ==
    /\ ret.numeric = None
    /\ LET df == infer_and_convert_types(clean_column_names(read_file(arg.file)))
       IN  ret' = [ret EXCEPT !.numeric =
                      Some([df |-> df,
                            issues |-> validate_numeric_values(df, arg.numeric_columns)])]
    /\ UNCHANGED <<requestVars, arg>>

NextNumeric == DetectPhase \/ ValidateNumeric

SpecNumeric == InitNumeric /\ [][NextNumeric]_vars

\* the rows of a column with a negative value, with a value of exactly zero
NegativeRows(cells) ==
    {r \in DOMAIN cells : cells[r].k \in NumberKinds /\ cells[r].v < 0}

ZeroRows(cells) ==
    {r \in DOMAIN cells : cells[r].k \in NumberKinds /\ cells[r].v = 0}

\* the issues of a type on a column
IssuesOn(issues, type, column) ==
    SelectSeq(issues, LAMBDA i : i.type = type /\ i.column = column)

\* the issues on column c of table df are as its negative and zero values ask
NumericIssuesAsDue(issues, df, c) ==
    /\ IssuesOn(issues, "negative_values", c.name) =
          IF NegativeRows(c.cells) # {}
          THEN <<Issue("info", "negative_values", c.name)>> ELSE <<>>
    /\ IssuesOn(issues, "many_zeros", c.name) =
          IF 2 * Cardinality(ZeroRows(c.cells)) > NRows(df)
          THEN <<Issue("warning", "many_zeros", c.name)>> ELSE <<>>

(***************************************************************************)
(* C24: in every validation report, each column whose detected type is     *)
(* numeric or integer has the info negative_values exactly when it holds a *)
(* negative value, and the warning many_zeros exactly when more than half  *)
(* of the rows of the table hold exactly zero in it (none at exactly       *)
(* half); the two are decided apart, so a column may have both.  The same  *)
(* holds of validate_numeric_values for each column named to it that the   *)
(* table has.                                                              *)
(***************************************************************************)
C24_NegativesAndZeros ==
    /\ ret.detected # None =>
          \A i \in DOMAIN ret.detected[1].df :
              ret.detected[1].schema.columns[i].detected_type \in {"numeric", "integer"}
                 => NumericIssuesAsDue(ret.detected[1].validation.issues,
                                       ret.detected[1].df, ret.detected[1].df[i])
    /\ ret.numeric # None =>
          \A i \in DOMAIN ret.numeric[1].df :
              ret.numeric[1].df[i].name \in Range(arg.numeric_columns)
                 => NumericIssuesAsDue(ret.numeric[1].issues,
                                       ret.numeric[1].df, ret.numeric[1].df[i])

\* the report of the detect phase warns of the many zeros of `flag`, typed
\* integer and False in three rows of four, and `qty`, passed to the function
\* with a negative value and zeros in three rows of four, has both issues
C24_Witness ==
    /\ ret.detected # None
    /\ ret.numeric # None
    /\ NRows(ret.numeric[1].df) = 4
    /\ ret.detected[1].schema.columns[2].detected_type = "integer"
    /\ Cardinality(ZeroRows(arg.file[2].cells)) = 3
    /\ Issue("warning", "many_zeros", clean_column_name(Name_flag))
          \in Range(ret.detected[1].validation.issues)
    /\ Cardinality(ZeroRows(arg.file[1].cells)) = 3
    /\ Cardinality(NegativeRows(arg.file[1].cells)) = 1
    /\ Issue("info", "negative_values", clean_column_name(Name_qty))
          \in Range(ret.numeric[1].issues)
    /\ Issue("warning", "many_zeros", clean_column_name(Name_qty))
          \in Range(ret.numeric[1].issues)

\* RawUpload.processed_at is not null
Stamped(u) == raw_uploads[u].processed_at # {}

(***************************************************************************)
(* C25 as claimed: in every state, the processed_at of an upload is set if *)
(* and only if its stored status is "processed".                           *)
(***************************************************************************)
C25_AsClaimed ==
    \A u \in UploadIds : Exists(u) => (Stamped(u) <=> StatusOf(u) = "processed")

(***************************************************************************)
(* C25 amended: an upload whose status is "processed" has its processed_at *)
(* set; processed_at is set by no step but the one that stores             *)
(* "processed", and is never cleared or set on a new upload.  The status   *)
(* of a processed upload changes again only by a step of a process run     *)
(* that had loaded the upload before it was marked processed, a run        *)
(* overlapping the one that processed it: such a run stores "processing"   *)
(* or "error" over "processed" and leaves the processed_at in place.       *)
(***************************************************************************)
C25_StampedWhenProcessed ==
    /\ [](\A u \in UploadIds : (Exists(u) /\ StatusOf(u) = "processed") => Stamped(u))
    /\ [][\A u \in UploadIds :
            /\ (~Exists(u) /\ u \in DOMAIN raw_uploads')
                  => raw_uploads'[u].processed_at = {}
            /\ Exists(u) =>
                  /\ raw_uploads'[u].processed_at # raw_uploads[u].processed_at
                        => /\ raw_uploads'[u].status = "processed"
                           /\ raw_uploads'[u].processed_at # {}
                  /\ (StatusOf(u) = "processed" /\ raw_uploads'[u].status # "processed")
                        => /\ raw_uploads'[u].processed_at = raw_uploads[u].processed_at
                           /\ \E h \in Handlers :
                                 /\ Moves(h)
                                 /\ run[h].op = "process"
                                 /\ run[h].upload_id = u
                                 /\ run[h].loaded_status # "processed"
       ]_vars

\* a run that had loaded the upload as "uploaded" has stored "processing" over
\* the "processed" of another run: the upload is stamped and not processed
C25_Witness ==
    \E h \in Handlers :
        /\ run[h].op = "process"
        /\ run[h].pc = "file"
        /\ run[h].loaded_status = "uploaded"
        /\ StatusOf(run[h].upload_id) = "processing"
        /\ Stamped(run[h].upload_id)
        /\ RecordsOf(sales_data, run[h].upload_id) # <<>>

(***************************************************************************)
(* C26 as claimed: in every state, an upload has an error_message only     *)
(* while its stored status is "error"; an upload that is "uploaded",       *)
(* "processing" or "processed" has none, whatever happened to it before.   *)
(***************************************************************************)
C26_AsClaimed ==
    \A u \in UploadIds :
        (Exists(u) /\ raw_uploads[u].error_message # NULL) => StatusOf(u) = "error"

\* what the code keeps to: an error_message, once stored, is never cleared
ErrorMessageKept ==
    [][\A u \in UploadIds :
        (Exists(u) /\ raw_uploads[u].error_message # NULL)
           => raw_uploads'[u].error_message # NULL
    ]_vars

(***************************************************************************)
(* SpecSequential: one request handler, so that the process calls on the   *)
(* upload are made one after another, each starting when the one before    *)
(* has returned, raised or died.                                           *)
(***************************************************************************)
Sequential == "h1"

NextSequential ==
    \/ \E u \in Contended, f \in FileKinds : upload_file(u, f)
    \/ \E u \in Contended : FileLost(u)
    \/ \E u \in Contended : ProcessRequest(Sequential, u)
    \/ EntryCheck(Sequential)
    \/ MarkProcessing(Sequential)
    \/ MarkProcessingFails(Sequential)
    \/ ReadAndTransform(Sequential)
    \/ InsertToDatabase(Sequential)
    \/ InsertBuildFails(Sequential)
    \/ InsertCommitFails(Sequential)
    \/ MarkProcessed(Sequential)
    \/ MarkProcessedFails(Sequential)
    \/ HandleError(Sequential)
    \/ HandleErrorFails(Sequential)
    \/ Kill(Sequential)
    \/ Release(Sequential)

SpecSequential == Init /\ [][NextSequential]_vars

\* no process run is under way
NoRunInProgress == \A h \in Handlers : run[h].pc \in {"idle", "done", "killed"}

(***************************************************************************)
(* C27 as claimed: with the process calls made one after another, whenever *)
(* no run is under way, an upload has SalesData rows only if its status is *)
(* "processed", and a processed upload has exactly one record per row of   *)
(* its file, those of the one run that succeeded.                          *)
(***************************************************************************)
C27_AsClaimed ==
    NoRunInProgress =>
        \A u \in UploadIds :
            Exists(u) =>
                /\ RecordsOf(sales_data, u) # <<>> => StatusOf(u) = "processed"
                /\ StatusOf(u) = "processed"
                      => RecordsOf(sales_data, u) =
                            BuildRecords([rows |-> raw_uploads[u].row_count], u)

(***************************************************************************)
(* C28: in every process run, the cleaned, the mapped and the filled table *)
(* have the rows of the file as read, no more and no fewer, in every       *)
(* column; and when the run succeeds (every record builds), it has stored  *)
(* one SalesData per row, so that rows_inserted, rows_processed and the    *)
(* number of records added are the number of data rows of the file.        *)
(***************************************************************************)
C28_RowsKept ==
    ret.processed # None =>
        LET out == ret.processed[1].out
            rows == Len(arg.file[1].cells)
        IN  /\ out.rows_processed = rows
            /\ \A i \in DOMAIN out.cleaned : Len(out.cleaned[i].cells) = rows
            /\ \A i \in DOMAIN out.mapped : Len(out.mapped[i].cells) = rows
            /\ \A i \in DOMAIN out.df : Len(out.df[i].cells) = rows
            /\ out.records # None
                  => /\ Len(out.records[1]) = rows
                     /\ out.rows_inserted = out.rows_processed
                     /\ out.rows_inserted = Len(out.records[1])

\* a run on a mapped file of MaxRows equal rows, with an empty quantity filled
\* and five fields added, has stored MaxRows records
C28_Witness ==
    /\ ret.processed # None
    /\ arg.mapping = DataMapping
    /\ Len(arg.file) = 2
    /\ \A r \in 1..MaxRows : arg.file[1].cells[r] = Day(FirstDay) /\ isna(arg.file[2].cells[r])
    /\ ret.processed[1].out.records # None
    /\ Len(ret.processed[1].out.records[1]) = MaxRows
    /\ ret.processed[1].out.rows_inserted = MaxRows
    /\ ret.processed[1].out.rows_processed = MaxRows
    /\ ret.processed[1].out.records[1][MaxRows].sales_quantity = Num(0)
    /\ Len(ret.processed[1].out.df) = 2 + 5

====
